---- MODULE Spec2Model ----
(***************************************************************************)
(* Model of the generic game loop (GameEngine, client/src/lib/             *)
(* game-engine.ts) specialised by the Color Trap game                      *)
(* (ColorTrapGameEngine), together with the host's animation-frame queue   *)
(* and the listeners the game component registers.                         *)
(*                                                                         *)
(* Time.  The engine only ever uses time stamps in the difference          *)
(* currentTime - lastTime, so time stamps are kept relative to the present *)
(* instant: performance.now() is Now (0) and a stored time stamp is the    *)
(* (non-positive) offset of that instant from the present.  Letting time   *)
(* pass (Tick) moves every stored time stamp further into the past.        *)
(*                                                                         *)
(* Handles.  requestAnimationFrame returns a handle that differs from      *)
(* every handle still in use; the host's counter is represented by the     *)
(* least such handle.                                                      *)
(***************************************************************************)
EXTENDS Integers, Sequences, FiniteSets, TLC

\* ---------------------------------------------------------------- bounds
\* longest time, in ticks, that the model lets pass between two time stamps
MaxTicks == 2
\* number of correct clicks after which the model stops clicking targets
MaxClicks == 2
\* how far below zero the model lets Color Trap's timeLeft run
MaxOvertime == 1

\* ------------------------------------------------------------- constants
\* ColorTrapGameEngine.timeLeft, seconds of a session
InitialTimeLeft == 30
\* ColorTrapGameEngine.update: milliseconds per timeLeft decrement
SecondMs == 1000
\* granularity of the clock: half a second
TickMs == SecondMs \div 2
\* animationId: number | null
Null == 0
\* performance.now(), and the time stamp the host passes to a frame callback
Now == 0

VARIABLES
  state,          \* GameEngine.state: score, isPlaying, isPaused, gameOver
  animationId,    \* GameEngine.animationId (Null or a handle)
  lastTime,       \* GameEngine.lastTime, relative to the present instant
  onScoreUpdate,  \* TRUE iff a score-change listener is registered
  onGameOver,     \* TRUE iff a game-over listener is registered
  scheduled,      \* host: handles of the frame callbacks not yet run, oldest first
  timeLeft,       \* ColorTrapGameEngine.timeLeft
  lastTimeUpdate, \* ColorTrapGameEngine.lastTimeUpdate
  correctClicks,  \* ColorTrapGameEngine.correctClicks
  score,          \* the component's score state, set by the score listener
  op,             \* the operation that ran last
  calls,          \* the calls made while it ran, in order
  gameEngine,     \* the engine's class and, for the other games, its fields
  input,          \* the input the last operation was given
  bestScore,      \* the component's bestScore state
  isPlaying,      \* the component's isPlaying state
  mounted,        \* TRUE while the component is mounted
  pausedTime      \* of the time since lastTime, the part spent paused

\* The server: MemStorage and the last HTTP exchange.
VARIABLES
  games,          \* MemStorage.games, in insertion order
  scores,         \* MemStorage.scores, in insertion order
  challenges,     \* MemStorage.challenges, in insertion order
  clock,          \* the server's date, in days since the store was constructed
  request,        \* the last request (or direct store call) made
  response        \* the response to it

\* The browser: localStorage as used by LocalStorage (client/src/lib/storage.ts).
VARIABLES
  localStorage,   \* the items stored under SCORES_KEY and PREFERENCES_KEY
  saved,          \* how often each (gameSlug, score) was passed to saveScore
  result          \* outcome of the last LocalStorage operation

engineVars == <<state, animationId, lastTime, onScoreUpdate, onGameOver,
                scheduled, timeLeft, lastTimeUpdate, correctClicks, score,
                op, calls, gameEngine, input, bestScore, isPlaying,
                mounted, pausedTime>>

storeVars == <<games, scores, challenges, clock, request, response>>

cacheVars == <<localStorage, saved, result>>

vars == <<engineVars, storeVars, cacheVars>>

Range(s) == {s[i] : i \in 1..Len(s)}

\* The engine, its game and its host at the start of an operation.
Cur ==
  [state |-> state, animationId |-> animationId, lastTime |-> lastTime,
   onScoreUpdate |-> onScoreUpdate, onGameOver |-> onGameOver,
   scheduled |-> scheduled, timeLeft |-> timeLeft,
   lastTimeUpdate |-> lastTimeUpdate, correctClicks |-> correctClicks,
   score |-> score, calls |-> <<>>,
   game |-> gameEngine, random |-> <<>>]

\* Record that fn was called with argument arg.
Call(m, fn, arg) == [m EXCEPT !.calls = Append(@, [fn |-> fn, arg |-> arg])]

\* Array.prototype.find, given the elements that satisfy the predicate in
\* array order: <<the first of them>>, or <<>> for undefined
find(matching) == IF matching = <<>> THEN <<>> ELSE <<matching[1]>>

\* ------------------------------------------------------------------ host
requestAnimationFrame(m) ==
  CHOOSE h \in 1..(Len(m.scheduled) + 2) :
    /\ h \notin Range(m.scheduled) \cup {m.animationId}
    /\ \A g \in 1..(h - 1) : g \in Range(m.scheduled) \cup {m.animationId}

cancelAnimationFrame(m, h) ==
  [m EXCEPT !.scheduled = SelectSeq(@, LAMBDA x : x # h)]

\* ---------------------------------------------------------------- engine
\* updateScore as it would be if it notified the listener only of a new value
updateScore_notifiesOnChange(m, newScore) ==
  LET m1 == Call([m EXCEPT !.state.score = newScore], "updateScore", newScore)
  IN  IF m1.onScoreUpdate /\ newScore # m.state.score
        THEN [Call(m1, "onScoreUpdate", newScore) EXCEPT !.score = newScore]
        ELSE m1

updateScore(m, newScore) ==
  LET m1 == Call([m EXCEPT !.state.score = newScore], "updateScore", newScore)
  IN  IF m1.onScoreUpdate
        THEN [Call(m1, "onScoreUpdate", newScore) EXCEPT !.score = newScore]
        ELSE m1

\* stop as it would be if it forgot to clear isPlaying
stop_keepsPlaying(m) ==
  LET m0 == Call(m, "stop", m.state.score)
      m1 == IF m0.animationId # Null
              THEN [cancelAnimationFrame(m0, m0.animationId)
                      EXCEPT !.animationId = Null]
              ELSE m0
      m2 == [m1 EXCEPT !.state.gameOver = TRUE]
  IN  IF m2.onGameOver THEN Call(m2, "onGameOver", m2.state.score) ELSE m2

\* stop as it would be if it notified the listener only on a change of state
stop_notifiesOnChange(m) ==
  LET m0 == Call(m, "stop", m.state.score)
      m1 == IF m0.animationId # Null
              THEN [cancelAnimationFrame(m0, m0.animationId)
                      EXCEPT !.animationId = Null]
              ELSE m0
      m2 == [m1 EXCEPT !.state.isPlaying = FALSE, !.state.gameOver = TRUE]
  IN  IF m2.onGameOver /\ m.state.isPlaying
        THEN Call(m2, "onGameOver", m2.state.score)
        ELSE m2

stop(m) ==
  LET m0 == Call(m, "stop", m.state.score)
      m1 == IF m0.animationId # Null
              THEN [cancelAnimationFrame(m0, m0.animationId)
                      EXCEPT !.animationId = Null]
              ELSE m0
      m2 == [m1 EXCEPT !.state.isPlaying = FALSE, !.state.gameOver = TRUE]
  IN  IF m2.onGameOver THEN Call(m2, "onGameOver", m2.state.score) ELSE m2

\* ------------------------------------------------------------ Color Trap
update(m, deltaTime) ==
  LET m0 == Call(m, "update", deltaTime)
      m1 == [m0 EXCEPT !.lastTimeUpdate = @ + deltaTime]
  IN  IF m1.lastTimeUpdate >= SecondMs
        THEN LET m2 == [m1 EXCEPT !.timeLeft = @ - 1, !.lastTimeUpdate = 0]
             IN  IF m2.timeLeft <= 0 THEN stop(m2) ELSE m2
        ELSE m1

render(m) == Call(m, "render", 0)

\* reset as it would be if it left the score alone
reset_keepsScore(m) ==
  [Call(m, "reset", 0) EXCEPT !.timeLeft = InitialTimeLeft,
                              !.correctClicks = 0,
                              !.lastTimeUpdate = 0]

reset(m) ==
  updateScore([Call(m, "reset", 0) EXCEPT !.timeLeft = InitialTimeLeft,
                                          !.correctClicks = 0,
                                          !.lastTimeUpdate = 0], 0)

\* What generateLevel leaves under the pointer: the one button it marked
\* isTarget ("target"), a button that drew the target colour from the palette
\* without being marked ("sameColour"), a button of another colour ("other"),
\* or no button ("none").
Buttons == {"target", "sameColour", "other", "none"}

handleClickAtPosition(m, button) ==
  IF ~m.state.isPlaying THEN m
  ELSE IF button = "none" THEN m
  ELSE IF button = "target"
         THEN LET m1 == [m EXCEPT !.correctClicks = @ + 1]
              IN  updateScore(m1, m1.correctClicks * 10)
       ELSE stop(m)

\* ----------------------------------------------------------- Bottle Flip
\* BottleFlipGameEngine keeps its fields in the engine's game record.  Lengths,
\* speeds and angles are in tenths of a pixel and of a degree, so that every
\* value the code computes from gravity 0.8 and the spins below is exact.
Tenths == 10

BottleFlip_height == 500

BottleFlip_gravity == 8

BottleFlip_groundY == (BottleFlip_height - 50) * Tenths

BottleFlip_launch == -18 * Tenths

\* 15 + Math.random() * 5, a few of the values it can take
Spins == {150, 162, 165, 199}

createBottle ==
  [y |-> BottleFlip_groundY - 40 * Tenths, rotation |-> 0, velocityY |-> 0,
   angularVelocity |-> 0, isFlipping |-> FALSE]

BottleFlipGameEngine ==
  [kind |-> "BottleFlip", bottle |-> createBottle, attempts |-> 0,
   consecutiveFlips |-> 0]

flipBottle(m, spin) ==
  IF ~m.state.isPlaying \/ m.game.bottle.isFlipping THEN m
  ELSE [m EXCEPT !.game.bottle.isFlipping = TRUE,
                 !.game.bottle.velocityY = BottleFlip_launch,
                 !.game.bottle.angularVelocity = spin,
                 !.game.attempts = @ + 1]

isUpright(normalizedRotation) ==
  \/ normalizedRotation >= 350 * Tenths
  \/ normalizedRotation <= 10 * Tenths
  \/ (normalizedRotation >= 170 * Tenths /\ normalizedRotation <= 190 * Tenths)

BottleFlip_update(m, deltaTime) ==
  LET m0 == Call(m, "update", deltaTime)
  IN  IF ~m0.game.bottle.isFlipping THEN m0
      ELSE
        LET velocityY == m0.game.bottle.velocityY + BottleFlip_gravity
            y == m0.game.bottle.y + velocityY
            rotation == m0.game.bottle.rotation
                          + m0.game.bottle.angularVelocity
            m1 == [m0 EXCEPT !.game.bottle.velocityY = velocityY,
                             !.game.bottle.y = y,
                             !.game.bottle.rotation = rotation]
        IN  IF y >= BottleFlip_groundY - 40 * Tenths
              THEN
                LET m2 == [m1 EXCEPT
                             !.game.bottle.y = BottleFlip_groundY - 40 * Tenths,
                             !.game.bottle.isFlipping = FALSE,
                             !.game.bottle.velocityY = 0,
                             !.game.bottle.angularVelocity = 0]
                    normalizedRotation == rotation % (360 * Tenths)
                IN  IF isUpright(normalizedRotation)
                      THEN LET m3 == [m2 EXCEPT !.game.consecutiveFlips = @ + 1]
                               m4 == updateScore(m3,
                                       m3.game.consecutiveFlips * 100)
                           IN  [m4 EXCEPT !.game.bottle.rotation =
                                  IF normalizedRotation > 180 * Tenths
                                    THEN 180 * Tenths ELSE 0]
                    ELSE IF m2.game.consecutiveFlips > 0 THEN stop(m2)
                    ELSE m2
              ELSE m1

BottleFlip_reset(m) ==
  updateScore([Call(m, "reset", 0) EXCEPT !.game.bottle = createBottle,
                                          !.game.attempts = 0,
                                          !.game.consecutiveFlips = 0], 0)

\* -------------------------------------------------------------- Tap Snake
\* TapSnakeGameEngine on a canvas of MaxColumns by MaxRows grid cells.  The
\* field random of the machine holds what Math.random is going to choose.
MaxColumns == 4

MaxRows == 4

gridSize == 20

TapSnake_width == MaxColumns * gridSize

TapSnake_height == MaxRows * gridSize

\* the positions generateFood can draw
Cells ==
  {[x |-> c * gridSize, y |-> r * gridSize] :
     c \in 0..(MaxColumns - 1), r \in 0..(MaxRows - 1)}

\* those of them the model lets it draw: the row the snake starts in, and
\* the corner
FoodCells ==
  {c \in Cells : c.y = ((TapSnake_height \div 2) \div gridSize) * gridSize}
    \cup {[x |-> 0, y |-> 0]}

\* the time between two frame callbacks, in ms
FrameDeltas == {200}

isPositionOnSnake(m, pos) == \E i \in 1..Len(m.game.snake) : m.game.snake[i] = pos

\* The loop draws again while the position is on the snake; m.random is the
\* position it ends with.
generateFood(m) == [m EXCEPT !.game.food = m.random]

initializeGame(m) ==
  LET centerX == ((TapSnake_width \div 2) \div gridSize) * gridSize
      centerY == ((TapSnake_height \div 2) \div gridSize) * gridSize
  IN  generateFood(
        [m EXCEPT !.game.snake = << [x |-> centerX, y |-> centerY],
                                    [x |-> centerX - gridSize, y |-> centerY],
                                    [x |-> centerX - gridSize * 2,
                                     y |-> centerY] >>,
                  !.game.direction = [x |-> 1, y |-> 0]])

\* the engine once constructed, with the food at the position drawn
TapSnakeGameEngine(food) ==
  initializeGame(
    [game |-> [kind |-> "TapSnake", snake |-> <<>>, food |-> [x |-> 0, y |-> 0],
               direction |-> [x |-> 1, y |-> 0], lastMoveTime |-> 0,
               moveInterval |-> 200, foodEaten |-> 0],
     random |-> food]).game

changeDirection(m) ==
  [m EXCEPT !.game.direction = [x |-> -m.game.direction.y,
                                y |-> m.game.direction.x]]

\* the listener of click, touchstart and the space key
handleTap(m) == IF m.state.isPlaying THEN changeDirection(m) ELSE m

checkCollision(m) ==
  LET head == m.game.snake[1]
  IN  \/ head.x < 0 \/ head.x >= TapSnake_width
      \/ head.y < 0 \/ head.y >= TapSnake_height
      \/ \E i \in 2..Len(m.game.snake) : m.game.snake[i] = head

moveSnake(m) ==
  LET head == [x |-> m.game.snake[1].x + m.game.direction.x * gridSize,
               y |-> m.game.snake[1].y + m.game.direction.y * gridSize]
      m1 == [m EXCEPT !.game.snake = <<head>> \o @]
  IN  IF checkCollision(m1) THEN stop(m1)
      ELSE IF head = m1.game.food
        THEN LET m2 == [m1 EXCEPT !.game.foodEaten = @ + 1]
             IN  generateFood(updateScore(m2, m2.game.foodEaten * 10))
      ELSE [m1 EXCEPT !.game.snake = SubSeq(@, 1, Len(@) - 1)]

TapSnake_update(m, deltaTime) ==
  LET m0 == Call(m, "update", deltaTime)
      m1 == [m0 EXCEPT !.game.lastMoveTime = @ + deltaTime]
  IN  IF m1.game.lastMoveTime >= m1.game.moveInterval
        THEN LET m2 == moveSnake(m1)
                 faster == 200 - m2.game.foodEaten * 5
             IN  [m2 EXCEPT !.game.lastMoveTime = 0,
                            !.game.moveInterval =
                               IF faster > 100 THEN faster ELSE 100]
        ELSE m1

TapSnake_reset(m) ==
  LET m1 == initializeGame(Call(m, "reset", 0))
  IN  updateScore([m1 EXCEPT !.game.foodEaten = 0,
                             !.game.lastMoveTime = 0,
                             !.game.moveInterval = 200], 0)

\* --------------------------------------------------------- Traffic Tapper
\* TrafficTapperGameEngine on a canvas of 2 * MaxHalfWidth by 2 * MaxHalfHeight
\* pixels.  Positions, sizes and speeds are in hundredths of a pixel, gameSpeed
\* in hundredths, so that base speed times gameSpeed is exact.
MaxHalfWidth == 60

MaxHalfHeight == 60

Hundredths == 100

TrafficTapper_width == 2 * MaxHalfWidth * Hundredths

TrafficTapper_height == 2 * MaxHalfHeight * Hundredths

\* the lights setupTrafficLights pushes
newTrafficLights ==
  << [x |-> TrafficTapper_width \div 2 - 20 * Hundredths,
      y |-> TrafficTapper_height \div 2 - 60 * Hundredths,
      isGreen |-> TRUE, direction |-> "horizontal"],
     [x |-> TrafficTapper_width \div 2 + 40 * Hundredths,
      y |-> TrafficTapper_height \div 2 - 20 * Hundredths,
      isGreen |-> FALSE, direction |-> "vertical"] >>

setupTrafficLights(m) == [m EXCEPT !.game.trafficLights = @ \o newTrafficLights]

TrafficTapperGameEngine ==
  setupTrafficLights(
    [game |-> [kind |-> "TrafficTapper", vehicles |-> <<>>,
               trafficLights |-> <<>>, vehiclesPassedSafely |-> 0,
               lastVehicleSpawn |-> 0, vehicleSpawnRate |-> 2000,
               gameSpeed |-> Hundredths]]).game

\* the lights under the point (x, y), as indices into trafficLights
LightsAt(m, x, y) ==
  {i \in 1..Len(m.game.trafficLights) :
     LET light == m.game.trafficLights[i]
         lightSize == 30 * Hundredths
     IN  /\ x >= light.x /\ x <= light.x + lightSize
         /\ y >= light.y /\ y <= light.y + lightSize}

\* handleClickAtPosition as it would be if it left the other light alone
TrafficTapper_handleClickAtPosition_oneLight(m, x, y) ==
  IF ~m.state.isPlaying \/ LightsAt(m, x, y) = {} THEN m
  ELSE LET i == CHOOSE k \in LightsAt(m, x, y) :
                  \A l \in LightsAt(m, x, y) : k <= l
       IN  [m EXCEPT !.game.trafficLights[i].isGreen = ~@]

\* The first light under the point is toggled, and with it the first light of
\* the list that is not that light.
TrafficTapper_handleClickAtPosition(m, x, y) ==
  IF ~m.state.isPlaying \/ LightsAt(m, x, y) = {} THEN m
  ELSE LET i == CHOOSE k \in LightsAt(m, x, y) :
                  \A l \in LightsAt(m, x, y) : k <= l
           m1 == [m EXCEPT !.game.trafficLights[i].isGreen = ~@]
           others == {k \in 1..Len(m1.game.trafficLights) : k # i}
       IN  IF others = {} THEN m1
           ELSE LET j == CHOOSE k \in others : \A l \in others : k <= l
                IN  [m1 EXCEPT !.game.trafficLights[j].isGreen = ~@]

\* spawnVehicle, with what Math.random chooses in m.random: the direction, the
\* side the vehicle enters from, its lane, its base speed (2 + Math.random()
\* * 2, in hundredths) and its sign
spawnVehicle(m) ==
  LET r == m.random
      speed == ((r.base * m.game.gameSpeed) \div Hundredths) * r.sign
      vehicle ==
        IF r.direction = "horizontal"
          THEN [x |-> IF r.near THEN -40 * Hundredths
                      ELSE TrafficTapper_width + 40 * Hundredths,
                y |-> TrafficTapper_height \div 2 + r.lane * 30 * Hundredths,
                width |-> 40 * Hundredths, height |-> 20 * Hundredths,
                speed |-> speed, direction |-> "horizontal"]
          ELSE [x |-> TrafficTapper_width \div 2 + r.lane * 30 * Hundredths,
                y |-> IF r.near THEN -40 * Hundredths
                      ELSE TrafficTapper_height + 40 * Hundredths,
                width |-> 20 * Hundredths, height |-> 40 * Hundredths,
                speed |-> speed, direction |-> "vertical"]
  IN  [m EXCEPT !.game.vehicles = Append(@, vehicle)]

Abs(n) == IF n < 0 THEN -n ELSE n

intersects(v1, v2) ==
  /\ v1.x < v2.x + v2.width
  /\ v1.x + v1.width > v2.x
  /\ v1.y < v2.y + v2.height
  /\ v1.y + v1.height > v2.y

checkCollisions(m) ==
  LET intersectionZone ==
        [x |-> TrafficTapper_width \div 2 - 50 * Hundredths,
         y |-> TrafficTapper_height \div 2 - 50 * Hundredths,
         width |-> 100 * Hundredths, height |-> 100 * Hundredths]
      vehiclesInIntersection ==
        SelectSeq(m.game.vehicles, LAMBDA v : intersects(v, intersectionZone))
  IN  \E i, j \in 1..Len(vehiclesInIntersection) :
        i < j /\ intersects(vehiclesInIntersection[i],
                            vehiclesInIntersection[j])

\* the light a vehicle of the direction consults: the first of that direction
lightFor(m, direction) ==
  find(SelectSeq(m.game.trafficLights, LAMBDA l : l.direction = direction))

\* the loop over the vehicles, from the last to the first, at index i
RECURSIVE updateVehicles(_, _)
updateVehicles(m, i) ==
  IF i = 0 THEN m
  ELSE
    LET vehicle == m.game.vehicles[i]
        light == lightFor(m, vehicle.direction)
        approachingIntersection ==
          \/ /\ vehicle.direction = "horizontal"
             /\ Abs(vehicle.x - TrafficTapper_width \div 2) < 60 * Hundredths
          \/ /\ vehicle.direction = "vertical"
             /\ Abs(vehicle.y - TrafficTapper_height \div 2) < 60 * Hundredths
    IN  IF light # <<>> /\ ~light[1].isGreen /\ approachingIntersection
          THEN updateVehicles(m, i - 1)
          ELSE
            LET moved == IF vehicle.direction = "horizontal"
                           THEN [vehicle EXCEPT !.x = @ + vehicle.speed]
                           ELSE [vehicle EXCEPT !.y = @ + vehicle.speed]
                m1 == [m EXCEPT !.game.vehicles[i] = moved]
            IN  IF \/ moved.x < -60 * Hundredths
                   \/ moved.x > TrafficTapper_width + 60 * Hundredths
                   \/ moved.y < -60 * Hundredths
                   \/ moved.y > TrafficTapper_height + 60 * Hundredths
                  THEN
                    LET m2 == [m1 EXCEPT
                                 !.game.vehicles =
                                    SubSeq(@, 1, i - 1)
                                      \o SubSeq(@, i + 1, Len(@)),
                                 !.game.vehiclesPassedSafely = @ + 1]
                    IN  updateVehicles(
                          updateScore(m2, m2.game.vehiclesPassedSafely * 10),
                          i - 1)
                  ELSE updateVehicles(m1, i - 1)

TrafficTapper_update(m, deltaTime) ==
  LET m0 == Call(m, "update", deltaTime)
      m1 == [m0 EXCEPT !.game.lastVehicleSpawn = @ + deltaTime]
      m2 == IF m1.game.lastVehicleSpawn >= m1.game.vehicleSpawnRate
              THEN [spawnVehicle(m1) EXCEPT
                      !.game.lastVehicleSpawn = 0,
                      !.game.vehicleSpawnRate =
                         IF @ - 50 > 1000 THEN @ - 50 ELSE 1000,
                      !.game.gameSpeed = @ + 2]
              ELSE m1
      m3 == updateVehicles(m2, Len(m2.game.vehicles))
  IN  IF checkCollisions(m3) THEN stop(m3) ELSE m3

TrafficTapper_reset(m) ==
  LET m1 == [Call(m, "reset", 0) EXCEPT !.game.vehicles = <<>>,
                                        !.game.vehiclesPassedSafely = 0,
                                        !.game.lastVehicleSpawn = 0,
                                        !.game.vehicleSpawnRate = 2000,
                                        !.game.gameSpeed = Hundredths]
  IN  setupTrafficLights(updateScore(m1, 0))

\* ----------------------------------------------------------- Doodle Stack
\* DoodleStackGameEngine.  Positions, sizes and velocities are in
\* ten-thousandths of a pixel, and a product with friction or with the bounce
\* factor is rounded down to that unit.  A block's rotation, colour and shape
\* are drawn and never read by update; velocityX is never set.  The field
\* timeouts counts the setTimeout callbacks of dropCurrentBlock not yet run.
TenThousandths == 10000

DoodleStack_width == 400 * TenThousandths

DoodleStack_height == 500 * TenThousandths

DoodleStack_gravity == TenThousandths \div 2

dropSpeed == 5 * TenThousandths

\* 30 + Math.random() * 40, some of the values it can take (in pixels)
Sizes == {30, 50}

\* spawnNewBlock, with the size Math.random gives in m.random
spawnNewBlock(m) ==
  LET size == m.random * TenThousandths
  IN  [m EXCEPT !.game.currentBlock =
         << [x |-> DoodleStack_width \div 2 - size \div 2,
             y |-> 50 * TenThousandths,
             width |-> size, height |-> size,
             velocityX |-> 0, velocityY |-> 0] >>]

\* the engine once constructed, its first block of the size drawn
DoodleStackGameEngine(size) ==
  spawnNewBlock(
    [game |-> [kind |-> "DoodleStack", blocks |-> <<>>, currentBlock |-> <<>>,
               stackHeight |-> 0, timeouts |-> 0],
     random |-> size]).game

dropCurrentBlock(m) ==
  IF m.game.currentBlock = <<>> THEN m
  ELSE [m EXCEPT
          !.game.blocks =
             Append(@, [m.game.currentBlock[1] EXCEPT !.velocityY = dropSpeed]),
          !.game.currentBlock = <<>>,
          !.game.timeouts = @ + 1]

\* the listener of click, touchstart and the space key
handleDrop(m) ==
  IF m.state.isPlaying /\ m.game.currentBlock # <<>>
    THEN dropCurrentBlock(m)
    ELSE m

\* the setTimeout callback of dropCurrentBlock
spawnTimeout(m) ==
  LET m1 == [m EXCEPT !.game.timeouts = @ - 1]
  IN  IF m1.state.isPlaying THEN spawnNewBlock(m1) ELSE m1

\* Math.sqrt(dx * dx + dy * dy) < minDistance, the squares taken of the
\* lengths in hundredths of a pixel
closerThan(dx, dy, minDistance) ==
  /\ Abs(dx) < minDistance
  /\ Abs(dy) < minDistance
  /\ (dx \div 100) * (dx \div 100) + (dy \div 100) * (dy \div 100)
       < (minDistance \div 100) * (minDistance \div 100)

\* checkCollisions(block), block being blocks[i]
DoodleStack_checkCollisions(m, i) ==
  LET block == m.game.blocks[i]
  IN  \/ block.y + block.height >= DoodleStack_height - 20 * TenThousandths
      \/ \E j \in 1..Len(m.game.blocks) :
           /\ j # i
           /\ LET otherBlock == m.game.blocks[j]
              IN  closerThan(block.x - otherBlock.x, block.y - otherBlock.y,
                             (block.width + otherBlock.width) \div 2
                               - 5 * TenThousandths)

isStackStable(m) ==
  \A i \in 1..Len(m.game.blocks) :
    /\ Abs(m.game.blocks[i].velocityX) <= TenThousandths \div 2
    /\ Abs(m.game.blocks[i].velocityY) <= TenThousandths \div 2

updateStackHeight(m) ==
  IF Len(m.game.blocks) = 0 THEN [m EXCEPT !.game.stackHeight = 0]
  ELSE LET lowestPoint ==
             CHOOSE y \in {m.game.blocks[i].y : i \in 1..Len(m.game.blocks)} :
               \A i \in 1..Len(m.game.blocks) : y <= m.game.blocks[i].y
           m1 == [m EXCEPT !.game.stackHeight = DoodleStack_height - lowestPoint]
       IN  updateScore(m1, m1.game.stackHeight \div (10 * TenThousandths))

\* the loop over the blocks, from the last to the first, at index i
RECURSIVE updateBlocks(_, _)
updateBlocks(m, i) ==
  IF i = 0 THEN m
  ELSE
    LET block == m.game.blocks[i]
        velocityY == block.velocityY + DoodleStack_gravity
        b1 == [block EXCEPT !.x = @ + block.velocityX,
                            !.y = @ + velocityY,
                            !.velocityX = (@ * 98) \div 100,
                            !.velocityY = (velocityY * 98) \div 100]
        m1 == [m EXCEPT !.game.blocks[i] = b1]
        b2 == IF DoodleStack_checkCollisions(m1, i)
                THEN LET bounced ==
                           IF b1.velocityY > 0
                             THEN -((b1.velocityY * 3) \div 10)
                             ELSE b1.velocityY
                     IN  [b1 EXCEPT
                            !.velocityX =
                               IF Abs(@) < TenThousandths \div 10 THEN 0 ELSE @,
                            !.velocityY =
                               IF Abs(bounced) < TenThousandths \div 10
                                 THEN 0 ELSE bounced]
                ELSE b1
        m2 == [m1 EXCEPT !.game.blocks[i] = b2]
        m3 == IF b2.y > DoodleStack_height + 100 * TenThousandths
                THEN [m2 EXCEPT !.game.blocks =
                        SubSeq(@, 1, i - 1) \o SubSeq(@, i + 1, Len(@))]
                ELSE m2
    IN  updateBlocks(m3, i - 1)

DoodleStack_update(m, deltaTime) ==
  LET m1 == updateBlocks(Call(m, "update", deltaTime), Len(m.game.blocks))
      topBlocks ==
        SelectSeq(m1.game.blocks,
                  LAMBDA block : block.y < DoodleStack_height \div 2)
      m2 == IF /\ Len(m1.game.blocks) > 3
               /\ ~isStackStable(m1)
               /\ \E i \in 1..Len(topBlocks) :
                    \/ Abs(topBlocks[i].velocityX) > 2 * TenThousandths
                    \/ Abs(topBlocks[i].velocityY) > 2 * TenThousandths
              THEN stop(m1)
              ELSE m1
  IN  updateStackHeight(m2)

DoodleStack_reset(m) ==
  spawnNewBlock(
    updateScore([Call(m, "reset", 0) EXCEPT !.game.blocks = <<>>,
                                            !.game.currentBlock = <<>>,
                                            !.game.stackHeight = 0], 0))

\* ----------------------------------------------------------- Paper Plane
\* The plane's y and velocityY are kept in tenths of a pixel, the scroll
\* (gameSpeed, distance, the obstacles' x) in thousandths.
Thousandths == 1000

PaperPlane_width == 400
PaperPlane_height == 500

PaperPlane_gravity == 6
jumpPower == -12 * Tenths
obstacleSpacing == 300

createPlane ==
  [x |-> 80, y |-> (PaperPlane_height * Tenths) \div 2, velocityY |-> 0,
   rotation |-> 0]

PaperPlaneGameEngine ==
  [kind |-> "PaperPlane", plane |-> createPlane, obstacles |-> <<>>,
   gameSpeed |-> 3 * Thousandths, lastObstacleX |-> 0, distance |-> 0]

\* A click, a touch or the space key.
handleInput(m) ==
  IF m.state.isPlaying THEN [m EXCEPT !.game.plane.velocityY = jumpPower]
  ELSE m

\* m.random is the topHeight drawn, between minHeight and maxHeight.
generateObstacle(m) ==
  LET gapSize == 120
      topHeight == m.random
      top == [x |-> PaperPlane_width * Thousandths, y |-> 0, width |-> 60,
              height |-> topHeight]
      bottom == [x |-> PaperPlane_width * Thousandths,
                 y |-> topHeight + gapSize, width |-> 60,
                 height |-> PaperPlane_height - (topHeight + gapSize)]
  IN  [Call(m, "generateObstacle", topHeight) EXCEPT
         !.game.obstacles = @ \o <<top, bottom>>,
         !.game.lastObstacleX = PaperPlane_width]

PaperPlane_checkCollisions(m) ==
  LET plane == m.game.plane
      obstacles == m.game.obstacles
  IN  \/ plane.y <= 0
      \/ plane.y >= (PaperPlane_height - 20) * Tenths
      \/ \E i \in 1..Len(obstacles) :
           /\ plane.x * Thousandths
                < obstacles[i].x + obstacles[i].width * Thousandths
           /\ (plane.x + 40) * Thousandths > obstacles[i].x
           /\ plane.y < (obstacles[i].y + obstacles[i].height) * Tenths
           /\ plane.y + 20 * Tenths > obstacles[i].y * Tenths

PaperPlane_update(m, deltaTime) ==
  LET m0 == Call(m, "update", deltaTime)
      velocityY == m0.game.plane.velocityY + PaperPlane_gravity
      rotation == IF velocityY * 2 > 30 * Tenths THEN 30 * Tenths
                  ELSE IF velocityY * 2 < -30 * Tenths THEN -30 * Tenths
                  ELSE velocityY * 2
      m1 == [m0 EXCEPT !.game.plane.velocityY = velocityY,
                       !.game.plane.y = @ + velocityY,
                       !.game.plane.rotation = rotation,
                       !.game.distance = @ + m0.game.gameSpeed]
      m2 == updateScore(m1, m1.game.distance \div (10 * Thousandths))
      m3 == IF PaperPlane_width - m2.game.lastObstacleX >= obstacleSpacing
              THEN generateObstacle(m2)
              ELSE m2
      moved == [i \in 1..Len(m3.game.obstacles) |->
                  [m3.game.obstacles[i] EXCEPT !.x = @ - m3.game.gameSpeed]]
      m4 == [m3 EXCEPT
               !.game.obstacles =
                  SelectSeq(moved,
                            LAMBDA o : ~(o.x + o.width * Thousandths < 0)),
               !.game.gameSpeed = @ + 2]
  IN  IF PaperPlane_checkCollisions(m4) THEN stop(m4) ELSE m4

PaperPlane_reset(m) ==
  updateScore([Call(m, "reset", 0) EXCEPT !.game.plane = createPlane,
                                          !.game.obstacles = <<>>,
                                          !.game.distance = 0,
                                          !.game.gameSpeed = 3 * Thousandths,
                                          !.game.lastObstacleX = 0], 0)

\* ------------------------------------------------ the engine's own game
\* this.update, this.render and this.reset: the methods of the engine's class.
this_update(m, deltaTime) ==
  IF m.game.kind = "BottleFlip" THEN BottleFlip_update(m, deltaTime)
  ELSE IF m.game.kind = "TapSnake" THEN TapSnake_update(m, deltaTime)
  ELSE IF m.game.kind = "TrafficTapper" THEN TrafficTapper_update(m, deltaTime)
  ELSE IF m.game.kind = "DoodleStack" THEN DoodleStack_update(m, deltaTime)
  ELSE IF m.game.kind = "PaperPlane" THEN PaperPlane_update(m, deltaTime)
  ELSE update(m, deltaTime)

this_render(m) == render(m)

this_reset(m) ==
  IF m.game.kind = "BottleFlip" THEN BottleFlip_reset(m)
  ELSE IF m.game.kind = "TapSnake" THEN TapSnake_reset(m)
  ELSE IF m.game.kind = "TrafficTapper" THEN TrafficTapper_reset(m)
  ELSE IF m.game.kind = "DoodleStack" THEN DoodleStack_reset(m)
  ELSE IF m.game.kind = "PaperPlane" THEN PaperPlane_reset(m)
  ELSE reset(m)

\* ------------------------------------------------------- engine, continued
\* gameLoop as it would be if it did not look at isPaused
gameLoop_ignoresPause(m, currentTime) ==
  IF ~m.state.isPlaying THEN m
  ELSE LET deltaTime == currentTime - m.lastTime
           m1 == [m EXCEPT !.lastTime = currentTime]
           m2 == IF ~m1.state.gameOver
                   THEN this_render(this_update(m1, deltaTime))
                   ELSE m1
           h  == requestAnimationFrame(m2)
       IN  [m2 EXCEPT !.scheduled = Append(@, h), !.animationId = h]

\* gameLoop as it would be if it let lastTime stand while the loop is paused
gameLoop_keepsLastTimePaused(m, currentTime) ==
  IF ~m.state.isPlaying THEN m
  ELSE LET deltaTime == currentTime - m.lastTime
           m1 == IF m.state.isPaused THEN m
                 ELSE [m EXCEPT !.lastTime = currentTime]
           m2 == IF ~m1.state.isPaused /\ ~m1.state.gameOver
                   THEN this_render(this_update(m1, deltaTime))
                   ELSE m1
           h  == requestAnimationFrame(m2)
       IN  [m2 EXCEPT !.scheduled = Append(@, h), !.animationId = h]

\* gameLoop as it would be if it drew the frame before updating it
gameLoop_rendersFirst(m, currentTime) ==
  IF ~m.state.isPlaying THEN m
  ELSE LET deltaTime == currentTime - m.lastTime
           m1 == [m EXCEPT !.lastTime = currentTime]
           m2 == IF ~m1.state.isPaused /\ ~m1.state.gameOver
                   THEN this_update(this_render(m1), deltaTime)
                   ELSE m1
           h  == requestAnimationFrame(m2)
       IN  [m2 EXCEPT !.scheduled = Append(@, h), !.animationId = h]

\* gameLoop as it would be if it drew no frame once update had stopped the loop
gameLoop_skipsRenderAfterStop(m, currentTime) ==
  IF ~m.state.isPlaying THEN m
  ELSE LET deltaTime == currentTime - m.lastTime
           m1 == [m EXCEPT !.lastTime = currentTime]
           u  == this_update(m1, deltaTime)
           m2 == IF ~m1.state.isPaused /\ ~m1.state.gameOver
                   THEN IF u.state.isPlaying THEN this_render(u) ELSE u
                   ELSE m1
           h  == requestAnimationFrame(m2)
       IN  [m2 EXCEPT !.scheduled = Append(@, h), !.animationId = h]

gameLoop(m, currentTime) ==
  IF ~m.state.isPlaying THEN m
  ELSE LET deltaTime == currentTime - m.lastTime
           m1 == [m EXCEPT !.lastTime = currentTime]
           m2 == IF ~m1.state.isPaused /\ ~m1.state.gameOver
                   THEN this_render(this_update(m1, deltaTime))
                   ELSE m1
           h  == requestAnimationFrame(m2)
       IN  [m2 EXCEPT !.scheduled = Append(@, h), !.animationId = h]

\* start as it would be without its early return
start_always(m) ==
  LET m1 == [m EXCEPT !.state.isPlaying = TRUE,
                      !.state.gameOver = FALSE,
                      !.state.isPaused = FALSE,
                      !.lastTime = Now]
  IN  gameLoop(m1, m1.lastTime)

start(m) ==
  IF m.state.isPlaying THEN m
  ELSE LET m1 == [m EXCEPT !.state.isPlaying = TRUE,
                           !.state.gameOver = FALSE,
                           !.state.isPaused = FALSE,
                           !.lastTime = Now]
       IN  gameLoop(m1, m1.lastTime)

\* pause as it would be if it resumed a loop that is not playing
pause_resumes(m) ==
  IF m.state.isPlaying THEN [m EXCEPT !.state.isPaused = ~@] ELSE start(m)

pause(m) == [m EXCEPT !.state.isPaused = ~@]

restart(m) == start(this_reset(stop(m)))

destroy(m) == stop(m)

setCallbacks(m, s, g) == [m EXCEPT !.onScoreUpdate = s, !.onGameOver = g]

\* ------------------------------------------------------------ JavaScript
\* Array.prototype.slice(0, end)
slice(s, end) ==
  LET e == IF end < 0
             THEN (IF Len(s) + end < 0 THEN 0 ELSE Len(s) + end)
             ELSE (IF end > Len(s) THEN Len(s) ELSE end)
  IN  SubSeq(s, 1, e)

\* Array.prototype.sort((a, b) => b.score - a.score): descending by score,
\* records of equal score keeping their order
RECURSIVE sortFrom(_, _)
sortFrom(s, vals) ==
  IF vals = {} THEN <<>>
  ELSE LET mx == CHOOSE v \in vals : \A w \in vals : w <= v
       IN  SelectSeq(s, LAMBDA r : r.score = mx) \o sortFrom(s, vals \ {mx})

\* the sort as it would be if it put records of equal score latest first
sortByScore_tiesReversed(s) ==
  sortFrom([i \in 1..Len(s) |-> s[Len(s) + 1 - i]],
           {s[i].score : i \in 1..Len(s)})

sortByScore(s) == sortFrom(s, {s[i].score : i \in 1..Len(s)})

\* parseInt of a query parameter: <<n>>, or <<>> for NaN
parseInt(q) == IF q.kind = "int" THEN <<q.val>> ELSE <<>>

\* x || dflt for a number x
orElse(x, dflt) == IF x = <<>> \/ x[1] = 0 THEN dflt ELSE x[1]

\* ------------------------------------------------------------ MemStorage
\* the values randomUUID returns, in the order in which it returns them
Uuids ==
  <<"uuid-01", "uuid-02", "uuid-03", "uuid-04", "uuid-05", "uuid-06",
    "uuid-07", "uuid-08", "uuid-09", "uuid-10", "uuid-11", "uuid-12",
    "uuid-13", "uuid-14", "uuid-15", "uuid-16", "uuid-17", "uuid-18",
    "uuid-19", "uuid-20", "uuid-21", "uuid-22", "uuid-23", "uuid-24",
    "uuid-25", "uuid-26", "uuid-27", "uuid-28", "uuid-29", "uuid-30">>

\* The store at the start of an operation.
Db == [games |-> games, scores |-> scores, challenges |-> challenges]

randomUUID(db) ==
  Uuids[Len(db.games) + Len(db.scores) + Len(db.challenges) + 1]

getGames(db) == SelectSeq(db.games, LAMBDA game : game.isActive = 1)

getGameBySlug(db, slug) == find(SelectSeq(db.games, LAMBDA game : game.slug = slug))

\* the new store and the record returned
createGame(db, insertGame, date) ==
  LET game == [id |-> randomUUID(db), name |-> insertGame.name,
               slug |-> insertGame.slug, isActive |-> insertGame.isActive,
               createdAt |-> date]
  IN  [db |-> [db EXCEPT !.games = Append(@, game)], value |-> game]

getScores_slicesFirst(db, gameId, limit) ==
  LET all == db.scores
      ofGame == IF gameId # ""
                  THEN SelectSeq(all, LAMBDA sc : sc.gameId = gameId)
                  ELSE all
  IN  sortByScore(slice(ofGame, limit))

getScores(db, gameId, limit) ==
  LET all == db.scores
      ofGame == IF gameId # ""
                  THEN SelectSeq(all, LAMBDA sc : sc.gameId = gameId)
                  ELSE all
  IN  slice(sortByScore(ofGame), limit)

createScore(db, insertScore, date) ==
  LET sc == [id |-> randomUUID(db), gameId |-> insertScore.gameId,
             score |-> insertScore.score, createdAt |-> date]
  IN  [db |-> [db EXCEPT !.scores = Append(@, sc)], value |-> sc]

getTopScores(db, gameId, limit) == getScores(db, gameId, limit)

getChallenges_all(db) == db.challenges

getChallenges(db) ==
  SelectSeq(db.challenges, LAMBDA challenge : challenge.isActive = 1)

getActiveChallenge_ignoresFlag(db, gameId, now) ==
  find(SelectSeq(db.challenges,
                 LAMBDA challenge : /\ challenge.gameId = gameId
                                    /\ challenge.startDate <= now
                                    /\ challenge.endDate >= now))

getActiveChallenge(db, gameId, now) ==
  find(SelectSeq(db.challenges,
                 LAMBDA challenge : /\ challenge.gameId = gameId
                                    /\ challenge.isActive = 1
                                    /\ challenge.startDate <= now
                                    /\ challenge.endDate >= now))

createChallenge(db, insertChallenge) ==
  LET challenge == [id |-> randomUUID(db), gameId |-> insertChallenge.gameId,
                    startDate |-> insertChallenge.startDate,
                    endDate |-> insertChallenge.endDate,
                    isActive |-> insertChallenge.isActive]
  IN  [db |-> [db EXCEPT !.challenges = Append(@, challenge)],
       value |-> challenge]

defaultGames ==
  <<[name |-> "Bottle Flip 2D", slug |-> "bottle-flip-2d", isActive |-> 1],
    [name |-> "Color Trap", slug |-> "color-trap", isActive |-> 1],
    [name |-> "Traffic Tapper", slug |-> "traffic-tapper", isActive |-> 1],
    [name |-> "Paper Plane Flight", slug |-> "paper-plane-flight",
     isActive |-> 1],
    [name |-> "Tap Snake", slug |-> "tap-snake", isActive |-> 1],
    [name |-> "Doodle Stack", slug |-> "doodle-stack", isActive |-> 1]>>

RECURSIVE initializeGames(_, _, _)
initializeGames(db, n, today) ==
  IF n > Len(defaultGames) THEN db
  ELSE initializeGames(createGame(db, defaultGames[n], today).db, n + 1, today)

\* idOfSlug as it would be if challenges were joined to games by slug
idOfSlug_slug(db, slug) ==
  LET g == find(SelectSeq(db.games, LAMBDA game : game.slug = slug))
  IN  IF g = <<>> THEN "" ELSE g[1].slug

\* the id of the seeded game with this slug, or ''
idOfSlug(db, slug) ==
  LET g == find(SelectSeq(db.games, LAMBDA game : game.slug = slug))
  IN  IF g = <<>> THEN "" ELSE g[1].id

defaultChallenges(db, today) ==
  LET tomorrow == today + 1
  IN  <<[gameId |-> idOfSlug(db, "bottle-flip-2d"),
         startDate |-> today, endDate |-> tomorrow, isActive |-> 1],
        [gameId |-> idOfSlug(db, "color-trap"),
         startDate |-> tomorrow, endDate |-> tomorrow + 1, isActive |-> 1],
        [gameId |-> idOfSlug(db, "traffic-tapper"),
         startDate |-> tomorrow + 1, endDate |-> tomorrow + 2,
         isActive |-> 1]>>

RECURSIVE initializeChallenges(_, _, _)
initializeChallenges(db, n, today) ==
  IF n > Len(defaultChallenges(db, today)) THEN db
  ELSE initializeChallenges(
         createChallenge(db, defaultChallenges(db, today)[n]).db, n + 1, today)

\* new MemStorage()
MemStorage ==
  initializeChallenges(
    initializeGames([games |-> <<>>, scores |-> <<>>, challenges |-> <<>>],
                    1, 0),
    1, 0)

\* ----------------------------------------------------------- HTTP routes
\* insertScoreSchema.parse: gameId must be a string and score an integer
insertScoreSchema(body) == body.gameIdType = "string" /\ body.scoreType = "integer"

Ok(status, body) == [status |-> status, body |-> body, message |-> ""]

Failed(status, message) ==
  [status |-> status, body |-> <<>>, message |-> message]

\* Each route gives the store and the response it leaves; throws says that
\* the store operation it awaits throws.
routeGames(db, throws) ==
  [db |-> db,
   res |-> IF throws THEN Failed(500, "Failed to fetch games")
           ELSE Ok(200, getGames(db))]

routeGameBySlug(db, slug, throws) ==
  [db |-> db,
   res |-> IF throws THEN Failed(500, "Failed to fetch game")
           ELSE IF getGameBySlug(db, slug) = <<>>
                  THEN Failed(404, "Game not found")
           ELSE Ok(200, getGameBySlug(db, slug))]

routeScores(db, gameId, limitParam, throws) ==
  LET limit == orElse(parseInt(limitParam), 10)
  IN  [db |-> db,
       res |-> IF throws THEN Failed(500, "Failed to fetch scores")
               ELSE Ok(200, getScores(db, gameId, limit))]

routePostScore_storesFirst(db, body, date, throws) ==
  LET created == createScore(db, body, date)
  IN  IF ~insertScoreSchema(body) \/ throws
        THEN [db |-> created.db, res |-> Failed(400, "Invalid score data")]
        ELSE [db |-> created.db, res |-> Ok(201, <<created.value>>)]

routePostScore(db, body, date, throws) ==
  IF ~insertScoreSchema(body) \/ throws
    THEN [db |-> db, res |-> Failed(400, "Invalid score data")]
    ELSE LET created == createScore(db, body, date)
         IN  [db |-> created.db, res |-> Ok(201, <<created.value>>)]

routeLeaderboard(db, gameId, limitParam, throws) ==
  LET limit == orElse(parseInt(limitParam), 10)
  IN  [db |-> db,
       res |-> IF throws THEN Failed(500, "Failed to fetch leaderboard")
               ELSE Ok(200, getTopScores(db, gameId, limit))]

routeChallenges(db, throws) ==
  [db |-> db,
   res |-> IF throws THEN Failed(500, "Failed to fetch challenges")
           ELSE Ok(200, getChallenges(db))]

routeActiveChallenge(db, gameId, date, throws) ==
  [db |-> db,
   res |-> IF throws THEN Failed(500, "Failed to fetch challenge")
           ELSE Ok(200, getActiveChallenge(db, gameId, date))]

InitStore ==
  /\ games = MemStorage.games
  /\ scores = MemStorage.scores
  /\ challenges = MemStorage.challenges
  /\ clock = 0
  /\ request = [route |-> "none"]
  /\ response = Ok(0, <<>>)

\* ---------------------------------------------------------- LocalStorage
\* The item under a key is absent, or text that is not JSON ("garbage"), or
\* the JSON text of null, of an object or of an array; value holds the
\* array's elements.  An element is a score record (type "object") or null.
\* A score record keeps gameSlug and score; timestamp and playerName play no
\* part in what is retained.
ScoreRecord(slug, n) == [type |-> "object", gameSlug |-> slug, score |-> n]

NullElement == [type |-> "null", gameSlug |-> "", score |-> 0]

Absent == [kind |-> "absent", value |-> <<>>]

ArrayText(items) == [kind |-> "array", value |-> items]

\* a value returned normally, or an exception
Return(v) == [threw |-> FALSE, value |-> v]

Throw == [threw |-> TRUE, value |-> <<>>]

\* JavaScript values read back from the scores item
JsArray(items) == [type |-> "array", items |-> items]

JsNull == [type |-> "null", items |-> <<>>]

JsObject == [type |-> "object", items |-> <<>>]

\* JSON.parse(text)
JSONparse(item) ==
  IF item.kind = "garbage" THEN Throw
  ELSE IF item.kind = "null" THEN Return(JsNull)
  ELSE IF item.kind = "object" THEN Return(JsObject)
  ELSE Return(JsArray(item.value))

\* JSON.stringify(array)
JSONstringify(items) == ArrayText(items)

HasNull(items) == \E i \in 1..Len(items) : items[i].type = "null"

\* scores retained per game
MaxRetained == 100

\* LocalStorage.getScores(gameSlug?); gameSlug "" stands for an omitted one
LocalStorage_getScores(ls, gameSlug) ==
  LET text == IF ls.scores.kind = "absent" THEN ArrayText(<<>>) ELSE ls.scores
      parsed == JSONparse(text)
  IN  IF parsed.threw THEN JsArray(<<>>)
      ELSE IF gameSlug # ""
        THEN IF parsed.value.type # "array" \/ HasNull(parsed.value.items)
               THEN JsArray(<<>>)
               ELSE JsArray(SelectSeq(parsed.value.items,
                                      LAMBDA sc : sc.gameSlug = gameSlug))
      ELSE parsed.value

\* LocalStorage.getTopScores(gameSlug, limit)
LocalStorage_getTopScores(ls, gameSlug, limit) ==
  LET got == LocalStorage_getScores(ls, gameSlug)
  IN  IF got.type # "array" \/ (HasNull(got.items) /\ Len(got.items) > 1)
        THEN Throw
        ELSE Return(slice(sortByScore(got.items), limit))

\* LocalStorage.getBestScore(gameSlug)
getBestScore(ls, gameSlug) ==
  LET top == LocalStorage_getTopScores(ls, gameSlug, 1)
  IN  IF top.threw THEN Throw
      ELSE IF Len(top.value) > 0
        THEN (IF top.value[1].type = "null" THEN Throw
              ELSE Return(top.value[1].score))
      ELSE Return(0)

RECURSIVE sumScores(_)
sumScores(items) ==
  IF items = <<>> THEN 0 ELSE items[1].score + sumScores(Tail(items))

RECURSIVE maxScore(_)
maxScore(items) ==
  IF Len(items) = 1 THEN items[1].score
  ELSE LET rest == maxScore(Tail(items))
       IN  IF items[1].score >= rest THEN items[1].score ELSE rest

\* Math.round(a / b) for a >= 0, b > 0
roundDiv(a, b) == (2 * a + b) \div (2 * b)

statsOf(items) ==
  [gamesPlayed |-> Len(items), bestScore |-> maxScore(items),
   averageScore |-> roundDiv(sumScores(items), Len(items)),
   totalScore |-> sumScores(items)]

NoStats ==
  [gamesPlayed |-> 0, bestScore |-> 0, averageScore |-> 0, totalScore |-> 0]

\* LocalStorage.getGameStats(gameSlug)
getGameStats(ls, gameSlug) ==
  LET got == LocalStorage_getScores(ls, gameSlug)
  IN  IF got.type # "array" \/ HasNull(got.items) THEN Throw
      ELSE IF Len(got.items) = 0 THEN Return(NoStats)
      ELSE Return(statsOf(got.items))

\* LocalStorage.getAllStats()
getAllStats(ls) ==
  LET allScores == LocalStorage_getScores(ls, "")
  IN  IF allScores.type # "array" \/ HasNull(allScores.items) THEN Throw
      ELSE LET slugs == {allScores.items[i].gameSlug :
                           i \in 1..Len(allScores.items)}
           IN  Return([totalGamesPlayed |-> Len(allScores.items),
                       gamesStats |->
                         [g \in slugs |->
                            statsOf(SelectSeq(allScores.items,
                                              LAMBDA sc : sc.gameSlug = g))]])

DefaultPreferences == [theme |-> "system", soundEnabled |-> TRUE]

\* LocalStorage.getPreferences(): the stored object, null, or the default
getPreferences(ls) ==
  IF ls.prefs.kind = "absent" THEN [type |-> "object", obj |-> DefaultPreferences]
  ELSE IF ls.prefs.kind = "garbage"
    THEN [type |-> "object", obj |-> DefaultPreferences]
  ELSE IF ls.prefs.kind = "null"
    THEN [type |-> "null", obj |-> DefaultPreferences]
  ELSE [type |-> "object", obj |-> ls.prefs.value]

saveScore_slicesFirst(ls, sc) ==
  LET got == LocalStorage_getScores(ls, "")
  IN  IF got.type # "array" \/ HasNull(got.items)
        THEN [ls |-> ls, threw |-> TRUE]
        ELSE LET all == Append(got.items, sc)
                 gameScores ==
                   SelectSeq(all, LAMBDA s : s.gameSlug = sc.gameSlug)
                 otherScores ==
                   SelectSeq(all, LAMBDA s : s.gameSlug # sc.gameSlug)
                 topGameScores == sortByScore(slice(gameScores, MaxRetained))
                 finalScores == otherScores \o topGameScores
             IN  [ls |-> [ls EXCEPT !.scores = JSONstringify(finalScores)],
                  threw |-> FALSE]

\* LocalStorage.saveScore(score): the new localStorage, and whether it threw
saveScore(ls, sc) ==
  LET got == LocalStorage_getScores(ls, "")
  IN  IF got.type # "array" \/ HasNull(got.items)
        THEN [ls |-> ls, threw |-> TRUE]
        ELSE LET all == Append(got.items, sc)
                 gameScores ==
                   SelectSeq(all, LAMBDA s : s.gameSlug = sc.gameSlug)
                 otherScores ==
                   SelectSeq(all, LAMBDA s : s.gameSlug # sc.gameSlug)
                 topGameScores == slice(sortByScore(gameScores), MaxRetained)
                 finalScores == otherScores \o topGameScores
             IN  [ls |-> [ls EXCEPT !.scores = JSONstringify(finalScores)],
                  threw |-> FALSE]

\* the slugs and scores the games of the model save
CacheSlugs == {"color-trap", "tap-snake"}

CacheScores == {10, 20}

\* The server is not part of a specification of the browser side alone.
NoStore ==
  /\ games = <<>>
  /\ scores = <<>>
  /\ challenges = <<>>
  /\ clock = 0
  /\ request = [route |-> "none"]
  /\ response = Ok(0, <<>>)

\* Nor is the browser's localStorage part of a specification of the loop or
\* of the server alone.
NoCache ==
  /\ localStorage = <<>>
  /\ saved = <<>>
  /\ result = <<>>

InitCache ==
  /\ localStorage = [scores |-> Absent, prefs |-> Absent]
  /\ saved = [k \in CacheSlugs \X CacheScores |-> 0]
  /\ result = [op |-> "none", threw |-> FALSE]

\* --------------------------------------------------------------- actions
\* The operation named o has run and left the engine as m.
\* The engine, its game and its host are left as m by operation o.
Apply(o, m) ==
  /\ state' = m.state
  /\ animationId' = m.animationId
  /\ lastTime' = m.lastTime
  /\ onScoreUpdate' = m.onScoreUpdate
  /\ onGameOver' = m.onGameOver
  /\ scheduled' = m.scheduled
  /\ timeLeft' = m.timeLeft
  /\ lastTimeUpdate' = m.lastTimeUpdate
  /\ correctClicks' = m.correctClicks
  /\ score' = m.score
  /\ calls' = m.calls
  /\ op' = o
  /\ gameEngine' = m.game

Commit(o, m) ==
  /\ Apply(o, m)
  /\ UNCHANGED <<input, bestScore, isPlaying, mounted, pausedTime, storeVars,
               cacheVars>>

\* The engine of game g once constructed.
NewEngine(g) ==
  /\ state = [score |-> 0, isPlaying |-> FALSE, isPaused |-> FALSE,
              gameOver |-> FALSE]
  /\ animationId = Null
  /\ lastTime = 0
  /\ onScoreUpdate = FALSE
  /\ onGameOver = FALSE
  /\ scheduled = <<>>
  /\ timeLeft = InitialTimeLeft
  /\ lastTimeUpdate = 0
  /\ correctClicks = 0
  /\ score = 0
  /\ op = "new"
  /\ calls = <<>>
  /\ gameEngine = g
  /\ input = "none"
  /\ bestScore = 0
  /\ isPlaying = FALSE
  /\ mounted = FALSE
  /\ pausedTime = 0

ColorTrapGameEngine == [kind |-> "ColorTrap"]

InitEngine == NewEngine(ColorTrapGameEngine)

Init == InitEngine /\ NoStore /\ NoCache

Start ==
  /\ timeLeft > -MaxOvertime
  /\ Commit("start", start(Cur))

Pause == Commit("pause", pause(Cur))

Stop == Commit("stop", stop(Cur))

Restart == Commit("restart", restart(Cur))

SetCallbacks ==
  \E s \in BOOLEAN, g \in BOOLEAN :
    Commit("setCallbacks", setCallbacks(Cur, s, g))

\* A click or touch on the canvas: on the target button, on another button,
\* or on no button.
Click ==
  \E button \in Buttons :
    /\ button = "target" => correctClicks < MaxClicks
    /\ Commit("click", handleClickAtPosition(Cur, button))

\* The host runs the oldest scheduled frame callback.
FrameCallback ==
  /\ scheduled # <<>>
  /\ Commit("frame", gameLoop([Cur EXCEPT !.scheduled = Tail(@)], Now))

\* Half a second passes.
Tick ==
  /\ lastTime > -(MaxTicks * TickMs)
  /\ Commit("tick", [Cur EXCEPT !.lastTime = @ - TickMs])

Next ==
  \/ Start
  \/ Pause
  \/ Stop
  \/ Restart
  \/ SetCallbacks
  \/ Click
  \/ FrameCallback
  \/ Tick

Spec == Init /\ [][Next]_vars

\* ------------------------------------------------- the loop's clock, observed
\* The loop alone, with the time it spends paused kept track of: pausedTime
\* grows with every tick that passes while the loop is playing and paused,
\* and starts again from zero whenever lastTime is set to the present.
CommitTimed(o, m) ==
  /\ Apply(o, m)
  /\ pausedTime' = IF m.lastTime = Now THEN 0 ELSE pausedTime
  /\ UNCHANGED <<input, bestScore, isPlaying, mounted, storeVars, cacheVars>>

TimedStart ==
  /\ timeLeft > -MaxOvertime
  /\ CommitTimed("start", start(Cur))

TimedPause == CommitTimed("pause", pause(Cur))

TimedStop == CommitTimed("stop", stop(Cur))

TimedRestart == CommitTimed("restart", restart(Cur))

TimedFrameCallback ==
  /\ scheduled # <<>>
  /\ CommitTimed("frame", gameLoop([Cur EXCEPT !.scheduled = Tail(@)], Now))

TimedTick ==
  /\ lastTime > -(MaxTicks * TickMs)
  /\ Apply("tick", [Cur EXCEPT !.lastTime = @ - TickMs])
  /\ pausedTime' = IF state.isPlaying /\ state.isPaused
                     THEN pausedTime + TickMs
                     ELSE pausedTime
  /\ UNCHANGED <<input, bestScore, isPlaying, mounted, storeVars, cacheVars>>

NextTimed ==
  \/ TimedStart
  \/ TimedPause
  \/ TimedStop
  \/ TimedRestart
  \/ TimedFrameCallback
  \/ TimedTick

SpecTimed == Init /\ [][NextTimed]_vars

\* ---------------------------------------------------- Color Trap, observed
\* The game with the button each click lands on kept in input.
CommitInput(o, m, in) ==
  /\ Apply(o, m)
  /\ input' = in
  /\ UNCHANGED <<bestScore, isPlaying, mounted, pausedTime, storeVars,
               cacheVars>>

TrapStart == CommitInput("start", start(Cur), "none")

TrapPause == CommitInput("pause", pause(Cur), "none")

TrapRestart == CommitInput("restart", restart(Cur), "none")

TrapClick ==
  \E button \in Buttons :
    /\ button = "target" => correctClicks < MaxClicks
    /\ CommitInput("click", handleClickAtPosition(Cur, button), button)

TrapFrameCallback ==
  /\ scheduled # <<>>
  /\ CommitInput("frame", gameLoop([Cur EXCEPT !.scheduled = Tail(@)], Now),
                 "none")

NextColorTrap ==
  \/ TrapStart
  \/ TrapPause
  \/ TrapRestart
  \/ TrapClick
  \/ TrapFrameCallback

SpecColorTrap == Init /\ [][NextColorTrap]_vars

\* ---------------------------------------------- the ColorTrapGame component
\* The browser alone: a fresh engine and an empty localStorage.
InitBrowser == InitEngine /\ NoStore /\ InitCache

\* largest number of scores the component saves
MaxPlays == 2

\* The component's game-over listener, run for every onGameOver call among
\* cs: gameStorage.saveScore of the final score under the game's slug.
RECURSIVE gameOverListener(_, _)
gameOverListener(ls, cs) ==
  IF cs = <<>> THEN ls
  ELSE IF Head(cs).fn = "onGameOver"
    THEN gameOverListener(
           saveScore(ls, ScoreRecord("color-trap", Head(cs).arg)).ls, Tail(cs))
  ELSE gameOverListener(ls, Tail(cs))

\* the scores the component has saved so far
SavedScores == LocalStorage_getScores(localStorage, "color-trap").items

\* An engine operation run from the component: its listeners run with it.
\* playing is the value the handler leaves in isPlaying when no game-over
\* listener ran after it set it.
CommitComponent(o, m, in, playing, best) ==
  /\ Apply(o, m)
  /\ input' = in
  /\ localStorage' = gameOverListener(localStorage, m.calls)
  /\ isPlaying' = playing
  /\ bestScore' = best
  /\ mounted' = IF o = "mount" THEN TRUE
                ELSE IF o = "destroy" THEN FALSE ELSE mounted
  /\ UNCHANGED <<pausedTime, saved, result, storeVars>>

\* The effect run once when the component mounts.
Mount ==
  /\ op = "new"
  /\ LET best == getBestScore(localStorage, "color-trap")
     IN  CommitComponent("mount", setCallbacks(Cur, TRUE, TRUE), "none",
                         isPlaying,
                         IF best.threw THEN bestScore ELSE best.value)

Mounted == mounted

\* The Start button, shown while the component's isPlaying is false.
handleStart ==
  /\ Mounted /\ ~isPlaying
  /\ CommitComponent("start", start(Cur), "none", TRUE, bestScore)

\* The Pause button, shown while the component's isPlaying is true.
handlePause ==
  /\ Mounted /\ isPlaying
  /\ CommitComponent("pause", pause(Cur), "none", isPlaying, bestScore)

\* The Restart button, shown while the component's isPlaying is true.
handleRestart ==
  /\ Mounted /\ isPlaying
  /\ Len(SavedScores) < MaxPlays
  /\ LET m == restart(Cur)
     IN  CommitComponent("restart", [m EXCEPT !.score = 0], "none", TRUE,
                         bestScore)

\* An engine operation that may end the game: the game-over listener, when
\* it runs, clears the component's isPlaying.
CommitListened(o, m, in) ==
  CommitComponent(o, m, in,
                  IF \E i \in 1..Len(m.calls) : m.calls[i].fn = "onGameOver"
                    THEN FALSE ELSE isPlaying,
                  bestScore)

\* A click on the canvas.
ComponentClick ==
  \E button \in Buttons :
    /\ Mounted
    /\ button = "target" => correctClicks < MaxClicks
    /\ button \in {"sameColour", "other"} => Len(SavedScores) < MaxPlays
    /\ CommitListened("click", handleClickAtPosition(Cur, button), button)

ComponentFrameCallback ==
  /\ scheduled # <<>>
  /\ CommitListened("frame", gameLoop([Cur EXCEPT !.scheduled = Tail(@)], Now),
                    "none")

\* The effect's cleanup, run when the component unmounts.
Unmount ==
  /\ Mounted
  /\ Len(SavedScores) < MaxPlays
  /\ CommitListened("destroy", destroy(Cur), "none")

NextComponent ==
  \/ Mount
  \/ Unmount
  \/ handleStart
  \/ handlePause
  \/ handleRestart
  \/ ComponentClick
  \/ ComponentFrameCallback

SpecComponent == InitBrowser /\ [][NextComponent]_vars

\* --------------------------------------------------- Bottle Flip, played
\* most flips between two resets
MaxAttempts == 3

InitBottleFlip == NewEngine(BottleFlipGameEngine) /\ NoStore /\ NoCache

BottleStart == CommitInput("start", start(Cur), "none")

BottleRestart == CommitInput("restart", restart(Cur), "none")

\* A click or touch on the canvas.
BottleClick ==
  \E spin \in Spins :
    /\ gameEngine.attempts < MaxAttempts
    /\ CommitInput("click", flipBottle(Cur, spin), "click")

BottleFrameCallback ==
  /\ scheduled # <<>>
  /\ CommitInput("frame", gameLoop([Cur EXCEPT !.scheduled = Tail(@)], Now),
                 "none")

NextBottleFlip ==
  \/ BottleStart
  \/ BottleRestart
  \/ BottleClick
  \/ BottleFrameCallback

SpecBottleFlip == InitBottleFlip /\ [][NextBottleFlip]_vars

\* ------------------------------------------------------ Tap Snake, played
\* most food eaten between two resets
MaxFood == 1

\* most segments of a snake the game is started with
MaxSegments == 4

\* Operation o has left the engine as m, the food where generateFood can
\* leave it, and no more food eaten than the model follows.
CommitSnake(o, m) ==
  /\ m.game.food # gameEngine.food => ~isPositionOnSnake(m, m.game.food)
  /\ m.game.foodEaten <= MaxFood
  /\ CommitInput(o, m, "none")

InitTapSnake ==
  /\ \E food \in FoodCells :
       /\ NewEngine(TapSnakeGameEngine(food))
       /\ ~isPositionOnSnake([game |-> gameEngine], food)
  /\ NoStore
  /\ NoCache

SnakeStart ==
  /\ Len(gameEngine.snake) <= MaxSegments
  /\ CommitSnake("start", start(Cur))

SnakeRestart ==
  \E food \in FoodCells :
    CommitSnake("restart", restart([Cur EXCEPT !.random = food]))

SnakeTap == CommitSnake("tap", handleTap(Cur))

\* The host runs the oldest scheduled frame callback, deltaTime after the
\* frame before it.
SnakeFrameCallback ==
  \E food \in FoodCells, deltaTime \in FrameDeltas :
    /\ scheduled # <<>>
    /\ CommitSnake("frame",
                   gameLoop([Cur EXCEPT
                               !.scheduled = Tail(@),
                               !.random = food,
                               !.lastTime = IF state.isPlaying
                                              THEN @ - deltaTime ELSE @],
                            Now))

NextTapSnake ==
  \/ SnakeStart
  \/ SnakeRestart
  \/ SnakeTap
  \/ SnakeFrameCallback

SpecTapSnake == InitTapSnake /\ [][NextTapSnake]_vars

\* ------------------------------------------------- Traffic Tapper, played
\* most vehicles spawned between two resets
MaxSpawns == 1

\* most resets
MaxResets == 1

\* where the model clicks: on the light of the horizontal road, on the light
\* of the vertical road, and on the corner of the canvas
ClickAt ==
  [horizontal |-> [x |-> newTrafficLights[1].x + 15 * Hundredths,
                   y |-> newTrafficLights[1].y + 15 * Hundredths],
   vertical |-> [x |-> newTrafficLights[2].x + 15 * Hundredths,
                 y |-> newTrafficLights[2].y + 15 * Hundredths],
   corner |-> [x |-> 0, y |-> 0]]

\* what the model lets spawnVehicle draw: a vehicle that enters the
\* horizontal road and crosses, and one that is put beside the vertical road
\* heading away from the canvas
SpawnDraws ==
  { [direction |-> "horizontal", near |-> TRUE, lane |-> 1,
     base |-> 350, sign |-> 1],
    [direction |-> "vertical", near |-> TRUE, lane |-> -1,
     base |-> 350, sign |-> -1] }

\* the time between two frame callbacks, in ms: none, or a spawn interval
SpawnDeltas == {0, 2000}

CommitTraffic(o, m, in) ==
  /\ m.game.gameSpeed <= Hundredths + 2 * MaxSpawns
  /\ Len(m.game.trafficLights) <= 2 + 2 * MaxResets
  /\ CommitInput(o, m, in)

InitTrafficTapper == NewEngine(TrafficTapperGameEngine) /\ NoStore /\ NoCache

TrafficStart == CommitTraffic("start", start(Cur), "none")

TrafficStop == CommitTraffic("stop", stop(Cur), "none")

TrafficRestart == CommitTraffic("restart", restart(Cur), "none")

TrafficClick ==
  \E where \in DOMAIN ClickAt :
    CommitTraffic("click",
                  TrafficTapper_handleClickAtPosition(
                    Cur, ClickAt[where].x, ClickAt[where].y),
                  where)

TrafficFrameCallback ==
  \E draw \in SpawnDraws, deltaTime \in SpawnDeltas :
    /\ scheduled # <<>>
    /\ CommitTraffic("frame",
                     gameLoop([Cur EXCEPT
                                 !.scheduled = Tail(@),
                                 !.random = draw,
                                 !.lastTime = IF state.isPlaying
                                                THEN @ - deltaTime ELSE @],
                              Now),
                     "none")

NextTrafficTapper ==
  \/ TrafficStart
  \/ TrafficStop
  \/ TrafficRestart
  \/ TrafficClick
  \/ TrafficFrameCallback

SpecTrafficTapper == InitTrafficTapper /\ [][NextTrafficTapper]_vars

\* --------------------------------------------------- Doodle Stack, played
\* most blocks dropped and not yet fallen off the screen, and most timeouts
\* pending
MaxBlocks == 1

CommitDoodle(o, m) ==
  /\ Len(m.game.blocks) <= MaxBlocks
  /\ m.game.timeouts <= MaxBlocks
  /\ CommitInput(o, m, "none")

InitDoodleStack ==
  /\ \E size \in Sizes : NewEngine(DoodleStackGameEngine(size))
  /\ NoStore
  /\ NoCache

DoodleStart == CommitDoodle("start", start(Cur))

DoodlePause == CommitDoodle("pause", pause(Cur))

DoodleStop == CommitDoodle("stop", stop(Cur))

DoodleRestart ==
  \E size \in Sizes :
    CommitDoodle("restart", restart([Cur EXCEPT !.random = size]))

\* A click, a touch or the space key.
DoodleDrop == CommitDoodle("drop", handleDrop(Cur))

\* The timeout set by a drop runs.
DoodleTimeout ==
  \E size \in Sizes :
    /\ gameEngine.timeouts > 0
    /\ CommitDoodle("timeout", spawnTimeout([Cur EXCEPT !.random = size]))

DoodleFrameCallback ==
  /\ scheduled # <<>>
  /\ CommitDoodle("frame", gameLoop([Cur EXCEPT !.scheduled = Tail(@)], Now))

NextDoodleStack ==
  \/ DoodleStart
  \/ DoodlePause
  \/ DoodleStop
  \/ DoodleRestart
  \/ DoodleDrop
  \/ DoodleTimeout
  \/ DoodleFrameCallback

SpecDoodleStack == InitDoodleStack /\ [][NextDoodleStack]_vars

\* The host runs every timeout it was given.
SpecDoodleStackLive == SpecDoodleStack /\ WF_vars(DoodleTimeout)

\* ---------------------------------------------------- Paper Plane, played
\* the scroll of a session, in px, after which the model runs no more frames
MaxScroll == 310

\* what the model lets generateObstacle draw for topHeight
TopHeights == {50, 200}

\* the model's player taps as the plane falls at one of these speeds, in
\* tenths of a pixel per frame
TapSpeeds == {6 * Tenths, 12 * Tenths}

InitPaperPlane == NewEngine(PaperPlaneGameEngine) /\ NoStore /\ NoCache

\* start runs a frame, and the first frame after a reset draws a topHeight.
PlaneStart ==
  \E topHeight \in TopHeights :
    /\ gameEngine.distance < MaxScroll * Thousandths
    /\ CommitInput("start", start([Cur EXCEPT !.random = topHeight]), "none")

PlaneRestart ==
  \E topHeight \in TopHeights :
    CommitInput("restart", restart([Cur EXCEPT !.random = topHeight]), "none")

PlaneTap ==
  /\ gameEngine.plane.velocityY \in TapSpeeds
  /\ CommitInput("tap", handleInput(Cur), "none")

PlaneFrameCallback ==
  \E topHeight \in TopHeights :
    /\ scheduled # <<>>
    /\ gameEngine.distance < MaxScroll * Thousandths
    /\ CommitInput("frame",
                   gameLoop([Cur EXCEPT !.scheduled = Tail(@),
                                        !.random = topHeight], Now),
                   "none")

NextPaperPlane ==
  \/ PlaneStart
  \/ PlaneRestart
  \/ PlaneTap
  \/ PlaneFrameCallback

SpecPaperPlane == InitPaperPlane /\ [][NextPaperPlane]_vars

\* ---------------------------------------------------------- server actions
\* largest number of scores posted to the API
MaxScores == 3
\* largest number of scores posted to one leaderboard
MaxBoard == 11
\* largest number of games created on top of the seeded ones
MaxGames == 2
\* largest number of challenges created on top of the seeded ones
MaxChallenges == 2
\* last day the server's clock reaches
MaxDay == 2

NoRequest == [route |-> "none"]

\* The request req was served, leaving the store and the response of out.
CommitStore(req, out) ==
  /\ games' = out.db.games
  /\ scores' = out.db.scores
  /\ challenges' = out.db.challenges
  /\ request' = req
  /\ response' = out.res
  /\ UNCHANGED <<clock, engineVars, cacheVars>>

\* request bodies of POST /api/scores
ValidBodies(gameIds) ==
  [gameIdType : {"string"}, gameId : gameIds,
   scoreType : {"integer"}, score : {450, 900}]

InvalidBodies ==
  {[gameIdType |-> "undefined", gameId |-> "", scoreType |-> "integer",
    score |-> 450],
   [gameIdType |-> "string", gameId |-> "g1", scoreType |-> "string",
    score |-> 0],
   [gameIdType |-> "string", gameId |-> "g1", scoreType |-> "undefined",
    score |-> 0]}

\* limit query parameters: absent, not a number, or an integer
LimitParams(ints) ==
  {[kind |-> "absent", val |-> 0], [kind |-> "text", val |-> 0]}
    \cup [kind : {"int"}, val : ints]

GetGames ==
  \E throws \in BOOLEAN :
    CommitStore([route |-> "GET /api/games", throws |-> throws],
                routeGames(Db, throws))

GetGameBySlug(slugs, fails) ==
  \E slug \in slugs, throws \in fails :
    CommitStore([route |-> "GET /api/games/:slug", slug |-> slug,
                 throws |-> throws],
                routeGameBySlug(Db, slug, throws))

GetScores(gameIds, limits, fails) ==
  \E gameId \in gameIds, limit \in limits, throws \in fails :
    CommitStore([route |-> "GET /api/scores", gameId |-> gameId,
                 limit |-> limit, throws |-> throws],
                routeScores(Db, gameId, limit, throws))

PostScore(bodies, max, fails) ==
  \E body \in bodies, throws \in fails :
    /\ Len(scores) < max
    /\ CommitStore([route |-> "POST /api/scores", body |-> body,
                    throws |-> throws],
                   routePostScore(Db, body, clock, throws))

GetLeaderboard ==
  \E gameId \in {"g1", "g2"}, limit \in LimitParams(-1..MaxScores),
     throws \in BOOLEAN :
    CommitStore([route |-> "GET /api/leaderboard/:gameId",
                 gameId |-> gameId, limit |-> limit, throws |-> throws],
                routeLeaderboard(Db, gameId, limit, throws))

GetChallenges(fails) ==
  \E throws \in fails :
    CommitStore([route |-> "GET /api/challenges", throws |-> throws],
                routeChallenges(Db, throws))

GetActiveChallenge(gameIds, fails) ==
  \E gameId \in gameIds, throws \in fails :
    CommitStore([route |-> "GET /api/challenges/:gameId",
                 gameId |-> gameId, throws |-> throws],
                routeActiveChallenge(Db, gameId, clock, throws))

\* a direct call of storage.createGame
CreateGame ==
  \E slug \in {"bottle-flip-2d", "color-trap", "new-game"}, active \in {0, 1} :
    LET insertGame == [name |-> "New Game", slug |-> slug,
                       isActive |-> active]
        created == createGame(Db, insertGame, clock)
    IN  /\ Len(games) < Len(defaultGames) + MaxGames
        /\ CommitStore([route |-> "createGame", body |-> insertGame],
                       [db |-> created.db, res |-> Ok(0, <<created.value>>)])

\* a direct call of storage.createChallenge, for the seeded Bottle Flip game
CreateChallenge ==
  \E startDate \in 0..MaxDay, endDate \in 0..MaxDay, active \in {0, 1} :
    LET insertChallenge ==
          [gameId |-> idOfSlug(Db, "bottle-flip-2d"),
           startDate |-> startDate, endDate |-> endDate, isActive |-> active]
        created == createChallenge(Db, insertChallenge)
    IN  /\ startDate <= endDate
        /\ Len(challenges) < 3 + MaxChallenges
        /\ CommitStore([route |-> "createChallenge", body |-> insertChallenge],
                       [db |-> created.db, res |-> Ok(0, <<created.value>>)])

\* A day passes on the server.
NextDay ==
  /\ clock < MaxDay
  /\ clock' = clock + 1
  /\ request' = NoRequest
  /\ response' = Ok(0, <<>>)
  /\ UNCHANGED <<games, scores, challenges, engineVars, cacheVars>>

InitServer == InitEngine /\ InitStore /\ NoCache

\* The HTTP layer: every route, any store operation possibly throwing.
ApiGameBySlug == GetGameBySlug({"color-trap", "unknown-slug"}, BOOLEAN)

ApiScores ==
  GetScores({"", "g1", "g2"}, LimitParams(-1..MaxScores), BOOLEAN)

ApiPostScore ==
  PostScore(ValidBodies({"g1", "g2"}) \cup InvalidBodies, MaxScores, BOOLEAN)

ApiChallenges == GetChallenges(BOOLEAN)

ApiActiveChallenge ==
  GetActiveChallenge({idOfSlug(Db, "bottle-flip-2d"),
                      idOfSlug(Db, "color-trap")}, BOOLEAN)

NextApi ==
  \/ GetGames
  \/ ApiGameBySlug
  \/ ApiScores
  \/ ApiPostScore
  \/ GetLeaderboard
  \/ ApiChallenges
  \/ ApiActiveChallenge

SpecApi == InitServer /\ [][NextApi]_vars

\* One leaderboard filled beyond the default limit.
BoardPostScore ==
  PostScore(ValidBodies({"g1"}) \cup InvalidBodies, MaxBoard, {FALSE})

BoardScores ==
  GetScores({"g1"},
            {[kind |-> "absent", val |-> 0], [kind |-> "int", val |-> 1],
             [kind |-> "int", val |-> MaxBoard]}, {FALSE})

NextBoard == BoardPostScore \/ BoardScores

SpecBoard == InitServer /\ [][NextBoard]_vars

\* The catalogue: games created on top of the seeded ones.
GamesGameBySlug ==
  GetGameBySlug({"bottle-flip-2d", "new-game", "unknown-slug"}, {FALSE})

NextGames == CreateGame \/ GamesGameBySlug

SpecGames == InitServer /\ [][NextGames]_vars

\* The challenges, over the days.
ChallengesList == GetChallenges({FALSE})

ChallengesActive ==
  GetActiveChallenge({idOfSlug(Db, "bottle-flip-2d"),
                      idOfSlug(Db, "color-trap"), "bottle-flip-2d",
                      "unknown-game"}, {FALSE})

NextChallenges ==
  \/ CreateChallenge
  \/ ChallengesList
  \/ ChallengesActive
  \/ NextDay

SpecChallenges == InitServer /\ [][NextChallenges]_vars

\* ------------------------------------------------------------ properties
\* fn was called during the last operation
Called(fn) == \E i \in 1..Len(calls) : calls[i].fn = fn

\* the positions of the calls of fn during the last operation
CallsOf(fn) == {i \in 1..Len(calls) : calls[i].fn = fn}

Idle == ~state.isPlaying /\ ~state.gameOver
Playing == state.isPlaying /\ ~state.isPaused
Paused == state.isPlaying /\ state.isPaused
GameOver == ~state.isPlaying /\ state.gameOver

\* C1: between operations the loop is never both playing and game over.
C1_NotPlayingAndGameOver == ~(state.isPlaying /\ state.gameOver)

\* a frame whose update ended the game
C1_Witness == op = "frame" /\ Called("stop") /\ GameOver

\* C2: restart returns with the loop playing, not paused, not game over,
\* and with the score reset establishes, 0.
C2_RestartPlaysFromZero ==
  op = "restart" =>
    state = [score |-> 0, isPlaying |-> TRUE, isPaused |-> FALSE,
             gameOver |-> FALSE]

\* a restart of a loop that held a positive score
C2_Witness ==
  /\ op = "restart"
  /\ \E i \in CallsOf("stop") : calls[i].arg > 0
  /\ state.score = 0 /\ Playing

\* C3 as stated: once in GameOver the loop stays there under every
\* operation other than restart.
C3_TerminalUntilRestart ==
  [][(GameOver /\ op' # "restart") => GameOver']_vars

\* C3 as amended: once in GameOver the loop stays there under pause, stop,
\* frame callbacks, clicks and the passing of time; only start and restart
\* leave GameOver.
C3_TerminalUntilStartOrRestart ==
  [][(GameOver /\ op' \notin {"start", "restart"}) => GameOver']_vars

\* a pause call made in GameOver
C3_Witness == GameOver /\ op = "pause"

\* C4: every call of stop leaves isPlaying false and gameOver true and calls
\* the game-over listener, if one is registered, exactly once with the score
\* held at the moment of the call; without a listener nothing is notified.
C4_StopNotifiesOnce ==
  /\ \A i \in CallsOf("stop") :
        IF onGameOver
          THEN /\ i < Len(calls)
               /\ calls[i + 1] = [fn |-> "onGameOver", arg |-> calls[i].arg]
          ELSE ~Called("onGameOver")
  /\ Cardinality(CallsOf("onGameOver")) =
       IF onGameOver THEN Cardinality(CallsOf("stop")) ELSE 0
  /\ op \in {"stop", "click", "frame"} /\ Called("stop") =>
       /\ GameOver
       /\ \A i \in CallsOf("stop") : calls[i].arg = state.score

\* a stop call on a loop that is already stopped, with a listener
C4_Witness ==
  /\ op = "stop" /\ onGameOver /\ GameOver
  /\ calls = <<[fn |-> "stop", arg |-> 10], [fn |-> "onGameOver", arg |-> 10]>>

\* C5: once stop has been called, from a handler or from inside update, no
\* frame callback is scheduled when the operation has finished and
\* animationId is null, until start or restart.
C5_StopCancelsChain ==
  ~state.isPlaying => (scheduled = <<>> /\ animationId = Null)

\* C6: restart on a loop that is already in GameOver notifies no game over
\* and changes no state before reset runs.
C6_RestartStopIdempotent ==
  [][(GameOver /\ op' = "restart") =>
       /\ \A i \in 1..Len(calls') : calls'[i].fn # "onGameOver"
       /\ calls'[1].fn = "stop" /\ calls'[2].fn = "reset"]_vars

\* C7: start on a playing loop changes nothing and calls neither update nor
\* render; start on a loop that is not playing leaves it playing and not
\* game over, with lastTime the current time, having run one frame with
\* deltaTime 0 and scheduled one more frame callback.
C7_StartFrame ==
  [][op' = "start" =>
       IF state.isPlaying
         THEN /\ UNCHANGED <<state, animationId, lastTime, scheduled, timeLeft,
                             lastTimeUpdate, correctClicks, score,
                             onScoreUpdate, onGameOver>>
              /\ calls' = <<>>
         ELSE /\ state' = [state EXCEPT !.isPlaying = TRUE, !.gameOver = FALSE,
                                         !.isPaused = FALSE]
              /\ lastTime' = Now
              /\ calls' = <<[fn |-> "update", arg |-> 0],
                            [fn |-> "render", arg |-> 0]>>
              /\ animationId' # Null
              /\ animationId' \notin Range(scheduled)
              /\ scheduled' = Append(scheduled, animationId')]_vars

\* a start call on a paused loop, some time after the last frame
C7_Witness == op = "start" /\ calls = <<>> /\ Paused /\ lastTime < Now

\* C8: pause flips isPaused and nothing else; a frame callback of a playing,
\* suspended loop calls neither update nor render and schedules the next
\* callback; a frame callback of a playing loop that is not suspended calls
\* update and then render, whatever suspended it before.
C8_PauseSuspendsFrames ==
  [][/\ op' = "pause" =>
          /\ state' = [state EXCEPT !.isPaused = ~state.isPaused]
          /\ UNCHANGED <<animationId, lastTime, scheduled, timeLeft,
                          lastTimeUpdate, correctClicks, score>>
          /\ calls' = <<>>
     /\ (op' = "frame" /\ state.isPlaying /\ state.isPaused) =>
          /\ calls' = <<>>
          /\ UNCHANGED <<state, timeLeft, lastTimeUpdate, correctClicks>>
          /\ animationId' = scheduled'[Len(scheduled')]
          /\ Len(scheduled') = Len(scheduled)
     /\ (op' = "frame" /\ state.isPlaying /\ ~state.isPaused) =>
          /\ Len(calls') >= 2
          /\ calls'[1].fn = "update"
          /\ calls'[Len(calls')].fn = "render"]_vars

\* a frame callback of a suspended loop that was started and never stopped
C8_Witness ==
  /\ op = "frame" /\ calls = <<>> /\ Paused
  /\ scheduled = <<animationId>>

\* C9: during one operation every update is followed by the render of the
\* same frame before any other update, and every render is preceded by the
\* update of its frame.
C9_UpdateThenRender ==
  /\ \A i \in CallsOf("update") :
        \E j \in CallsOf("render") :
          /\ i < j
          /\ \A k \in (i + 1)..(j - 1) : calls[k].fn \notin {"update", "render"}
  /\ \A j \in CallsOf("render") :
        \E i \in CallsOf("update") :
          /\ i < j
          /\ \A k \in (i + 1)..(j - 1) : calls[k].fn \notin {"update", "render"}
  /\ Cardinality(CallsOf("update")) <= 1

\* a frame in which update called stop and notified the listener before render
C9_Witness ==
  /\ op = "frame"
  /\ Len(calls) = 4
  /\ calls[1].fn = "update" /\ calls[2].fn = "stop"
  /\ calls[3].fn = "onGameOver" /\ calls[4].fn = "render"

\* C10: every updateScore(n) makes state.score n and calls the score-change
\* listener, if one is registered, exactly once with n, and nothing
\* otherwise; so after an operation that changed the score with a listener
\* registered, the listener's last value is state.score.
C10_ScoreListener ==
  /\ \A i \in CallsOf("updateScore") :
        IF onScoreUpdate
          THEN /\ i < Len(calls)
               /\ calls[i + 1] = [fn |-> "onScoreUpdate", arg |-> calls[i].arg]
          ELSE ~Called("onScoreUpdate")
  /\ Cardinality(CallsOf("onScoreUpdate")) =
       IF onScoreUpdate THEN Cardinality(CallsOf("updateScore")) ELSE 0
  /\ \A i \in CallsOf("updateScore") :
        (\A k \in CallsOf("updateScore") : k <= i) =>
          /\ state.score = calls[i].arg
          /\ onScoreUpdate => score = state.score

\* a correct click whose new score reached the listener
C10_Witness ==
  /\ op = "click" /\ onScoreUpdate
  /\ calls = <<[fn |-> "updateScore", arg |-> 20],
               [fn |-> "onScoreUpdate", arg |-> 20]>>
  /\ state.score = 20 /\ score = 20

\* --------------------------------------------------------- browser actions
\* largest number of scores one game saves: one more than are retained
MaxSaves == 101
\* largest number of scores the other game saves
MaxOtherSaves == 1

\* the number of scores saved of one game, among those of the scores ns
RECURSIVE SumSaved(_, _)
SumSaved(gameSlug, ns) ==
  IF ns = {} THEN 0
  ELSE LET n == CHOOSE m \in ns : TRUE
       IN  saved[<<gameSlug, n>>] + SumSaved(gameSlug, ns \ {n})

SavedOf(gameSlug) == SumSaved(gameSlug, CacheScores)

\* A game ends and saves its score.
SaveScore ==
  \E gameSlug \in CacheSlugs, n \in CacheScores :
    LET out == saveScore(localStorage, ScoreRecord(gameSlug, n))
    IN  /\ SavedOf(gameSlug) <
             (IF gameSlug = "color-trap" THEN MaxSaves ELSE MaxOtherSaves)
        /\ localStorage' = out.ls
        /\ saved' = IF out.threw THEN saved
                    ELSE [saved EXCEPT ![<<gameSlug, n>>] = @ + 1]
        /\ result' = [op |-> "saveScore", threw |-> out.threw,
                      gameSlug |-> gameSlug, score |-> n]
        /\ UNCHANGED <<engineVars, storeVars>>

SpecCache == InitBrowser /\ [][SaveScore]_vars

\* what the browser may hold under the two keys
Garbage == [kind |-> "garbage", value |-> <<>>]

NullText == [kind |-> "null", value |-> <<>>]

ObjectText == [kind |-> "object", value |-> <<>>]

ScoreItems ==
  {Absent, Garbage, NullText, ObjectText,
   ArrayText(<<NullElement>>),
   ArrayText(<<ScoreRecord("color-trap", 10)>>),
   ArrayText(<<ScoreRecord("color-trap", 20), ScoreRecord("tap-snake", 10)>>)}

PreferenceItems ==
  {Absent, Garbage, NullText,
   [kind |-> "object", value |-> [theme |-> "dark", soundEnabled |-> FALSE]]}

InitCacheRead ==
  /\ localStorage \in [scores : ScoreItems, prefs : PreferenceItems]
  /\ saved = <<>>
  /\ result = [op |-> "none", threw |-> FALSE]

\* A read returned v, or threw.
Read(name, out) ==
  /\ result' = [op |-> name, threw |-> out.threw, value |-> out.value]
  /\ UNCHANGED <<localStorage, saved, engineVars, storeVars>>

ReadScores ==
  \E gameSlug \in CacheSlugs \cup {""} :
    Read("getScores", Return(LocalStorage_getScores(localStorage, gameSlug)))

ReadTopScores ==
  \E gameSlug \in CacheSlugs, limit \in {1, 10} :
    Read("getTopScores", LocalStorage_getTopScores(localStorage, gameSlug, limit))

ReadBestScore ==
  \E gameSlug \in CacheSlugs :
    Read("getBestScore", getBestScore(localStorage, gameSlug))

ReadGameStats ==
  \E gameSlug \in CacheSlugs :
    Read("getGameStats", getGameStats(localStorage, gameSlug))

ReadAllStats == Read("getAllStats", getAllStats(localStorage))

ReadPreferences == Read("getPreferences", Return(getPreferences(localStorage)))

NextCacheRead ==
  \/ ReadScores
  \/ ReadTopScores
  \/ ReadBestScore
  \/ ReadGameStats
  \/ ReadAllStats
  \/ ReadPreferences

InitBrowserRead == InitEngine /\ NoStore /\ InitCacheRead

SpecCacheRead == InitBrowserRead /\ [][NextCacheRead]_vars

\* --------------------------------------------------------- server properties
\* the stored scores of one game
ScoresOf(gameId) == {sc \in Range(scores) : sc.gameId = gameId}

Descending(body) ==
  \A i \in 1..Len(body), j \in 1..Len(body) :
    i < j => body[i].score >= body[j].score

Served(route) ==
  /\ request.route = route
  /\ ("throws" \in DOMAIN request => ~request.throws)

\* C11: GET /api/leaderboard/:gameId?limit=k with 1 <= k <= N, N the number
\* of scores stored for the game, returns exactly k of the game's records,
\* in descending order of score, and no record left out scores higher than
\* one returned.
C11_LeaderboardTopK ==
  (/\ Served("GET /api/leaderboard/:gameId")
   /\ request.limit.kind = "int"
   /\ 1 <= request.limit.val
   /\ request.limit.val <= Cardinality(ScoresOf(request.gameId)))
  => /\ response.status = 200
     /\ Len(response.body) = request.limit.val
     /\ Range(response.body) \subseteq ScoresOf(request.gameId)
     /\ Cardinality(Range(response.body)) = Len(response.body)
     /\ Descending(response.body)
     /\ \A out \in ScoresOf(request.gameId) \ Range(response.body) :
          \A i \in 1..Len(response.body) : out.score <= response.body[i].score

\* 450 then 900 for g1, with a score of g2 among them: limit=1 gives the 900.
C11_Witness ==
  /\ Served("GET /api/leaderboard/:gameId")
  /\ request.gameId = "g1"
  /\ request.limit = [kind |-> "int", val |-> 1]
  /\ Len(scores) = 3
  /\ scores[1].gameId = "g1" /\ scores[1].score = 450
  /\ scores[2].gameId = "g2"
  /\ scores[3].gameId = "g1" /\ scores[3].score = 900
  /\ response.body = <<scores[3]>>

\* what C13 asks of a challenge: flag set and window around now, inclusive
ActiveAt(c, now) == c.isActive = 1 /\ c.startDate <= now /\ now <= c.endDate

Returned(c) == response.status = 200 /\ response.body = <<c>>

\* C13 as stated: the active-challenge query of c's game returns c if and
\* only if c is flagged active and now lies in its window, also when several
\* challenges of the game are.
C13_ActiveIffInWindow ==
  Served("GET /api/challenges/:gameId")
  => \A c \in Range(challenges) :
       c.gameId = request.gameId => (Returned(c) <=> ActiveAt(c, clock))

\* C13, amended: the query returns c if and only if c is flagged active, now
\* lies in its window, and no challenge of the game stored before c is too;
\* with none the answer is 200 without a challenge.
C13_FirstActiveInWindow ==
  Served("GET /api/challenges/:gameId")
  => /\ \A i \in 1..Len(challenges) :
          challenges[i].gameId = request.gameId
          => (Returned(challenges[i])
              <=> /\ ActiveAt(challenges[i], clock)
                  /\ \A j \in 1..(i - 1) :
                       ~(/\ challenges[j].gameId = request.gameId
                         /\ ActiveAt(challenges[j], clock)))
     /\ response.status = 200
     /\ (response.body = <<>>
         <=> ~\E c \in Range(challenges) :
               c.gameId = request.gameId /\ ActiveAt(c, clock))

\* Two challenges of the game are active in their windows; the first is served.
C13_Witness ==
  /\ Served("GET /api/challenges/:gameId")
  /\ \E i \in 1..Len(challenges), j \in 1..Len(challenges) :
       /\ i < j
       /\ challenges[i].gameId = request.gameId
       /\ challenges[j].gameId = request.gameId
       /\ ActiveAt(challenges[i], clock)
       /\ ActiveAt(challenges[j], clock)
       /\ Returned(challenges[i])

\* C14: after createGame(g), GET /api/games/<g.slug> returns the record that
\* createGame returned; a slug no stored game has gives 404.
C14_CreatedGameIsServed ==
  [][/\ (/\ request.route = "createGame"
         /\ request'.route = "GET /api/games/:slug"
         /\ request'.slug = request.body.slug)
        => (response'.status = 200 /\ response'.body = response.body)
     /\ (/\ request'.route = "GET /api/games/:slug"
         /\ \A i \in 1..Len(games') : games'[i].slug # request'.slug)
        => response'.status = 404]_vars

\* C15: no two stored games have the same slug.
C15_SlugsUnique ==
  \A i \in 1..Len(games), j \in 1..Len(games) :
    games[i].slug = games[j].slug => i = j

\* C16 as stated: GET /api/challenges returns exactly the challenges that are
\* flagged active and whose window contains now.
C16_ListsActiveInWindow ==
  Served("GET /api/challenges")
  => /\ response.status = 200
     /\ Range(response.body) = {c \in Range(challenges) : ActiveAt(c, clock)}

\* C16, amended: GET /api/challenges returns, in stored order, exactly the
\* challenges whose active flag is set, whether or not their window has
\* started or ended.
C16_ListsFlagged ==
  Served("GET /api/challenges")
  => /\ response.status = 200
     /\ Range(response.body) = {c \in Range(challenges) : c.isActive = 1}
     /\ Cardinality(Range(response.body)) = Len(response.body)
     /\ \A i \in 1..Len(response.body), j \in 1..Len(response.body) :
          i < j => \E k \in 1..Len(challenges), l \in 1..Len(challenges) :
                     /\ k < l
                     /\ challenges[k] = response.body[i]
                     /\ challenges[l] = response.body[j]

\* The list holds a flagged challenge that has ended and one that has not
\* started, and leaves out an unflagged one whose window contains now.
C16_Witness ==
  /\ Served("GET /api/challenges")
  /\ \E c \in Range(response.body) : c.endDate < clock
  /\ \E c \in Range(response.body) : clock < c.startDate
  /\ \E c \in Range(challenges) \ Range(response.body) :
       c.startDate <= clock /\ clock <= c.endDate

\* the store operation of the request was called and threw; POST /api/scores
\* calls the store only with a body on the schema
StoreThrows ==
  /\ "throws" \in DOMAIN request
  /\ request.throws
  /\ request.route = "POST /api/scores" => insertScoreSchema(request.body)

\* C17: a route whose store operation throws answers 500 with its generic
\* message; 400 comes only from POST /api/scores with a body that fails the
\* schema.
C17_StoreFailureIs500 ==
  /\ StoreThrows => (response.status = 500 /\ response.message # "")
  /\ response.status = 400
     => (request.route = "POST /api/scores" /\ ~insertScoreSchema(request.body))

\* what POST /api/scores does, as C18 has it
PostScoreContract ==
  request'.route = "POST /api/scores"
  => IF insertScoreSchema(request'.body)
       THEN /\ response'.status = 201
            /\ Len(response'.body) = 1
            /\ response'.body[1].gameId = request'.body.gameId
            /\ response'.body[1].score = request'.body.score
            /\ scores' = Append(scores, response'.body[1])
            /\ UNCHANGED <<games, challenges>>
       ELSE /\ response'.status = 400
            /\ UNCHANGED <<games, scores, challenges>>

\* the limit GET /api/scores applies: the one given, 10 when none is
LimitInForce == IF request.limit.kind = "int" THEN request.limit.val ELSE 10

C19_ScoresLimited ==
  Served("GET /api/scores")
  => /\ response.status = 200
     /\ Descending(response.body)
     /\ (request.limit.kind = "int" /\ request.limit.val >= 0)
        => Len(response.body) <= request.limit.val
     /\ request.limit.kind = "absent" => Len(response.body) <= 10
     /\ request.gameId # ""
        => \A i \in 1..Len(response.body) :
             response.body[i].gameId = request.gameId

\* -------------------------------------------------------- browser properties
\* the records the cache holds of one game with one score
Retained(gameSlug, n) ==
  IF localStorage.scores.kind # "array" THEN 0
  ELSE Cardinality({i \in 1..Len(localStorage.scores.value) :
                      /\ localStorage.scores.value[i].gameSlug = gameSlug
                      /\ localStorage.scores.value[i].score = n})

\* the scores saved of one game that are higher than n
SavedAbove(gameSlug, n) == SumSaved(gameSlug, {m \in CacheScores : m > n})

\* the records the cache holds of one game
RetainedOf(gameSlug) ==
  IF localStorage.scores.kind # "array" THEN 0
  ELSE Len(SelectSeq(localStorage.scores.value,
                     LAMBDA sc : sc.gameSlug = gameSlug))

Min(a, b) == IF a <= b THEN a ELSE b

Max(a, b) == IF a >= b THEN a ELSE b

\* C12: after any saveScore calls the cache holds at most 100 records of each
\* game, and of each score exactly as many as are among the game's 100
\* highest saved: all the saved when no more than 100 were, the 100 highest
\* otherwise.
C12_Top100Retained ==
  \A gameSlug \in CacheSlugs :
    /\ RetainedOf(gameSlug) <= MaxRetained
    /\ \A n \in CacheScores :
         Retained(gameSlug, n) =
           Min(saved[<<gameSlug, n>>],
               Max(0, MaxRetained - SavedAbove(gameSlug, n)))

\* A hundred and one scores were saved of Color Trap, the last a 20 when the
\* cache was full and held a 10: a 10 was evicted for it.
C12_Witness ==
  /\ result.op = "saveScore"
  /\ result.gameSlug = "color-trap"
  /\ result.score = 20
  /\ SavedOf("color-trap") = MaxRetained + 1
  /\ RetainedOf("color-trap") = MaxRetained
  /\ saved[<<"color-trap", 10>>] >= 1
  /\ Retained("color-trap", 10) = saved[<<"color-trap", 10>>] - 1
  /\ Retained("color-trap", 20) = saved[<<"color-trap", 20>>]
  /\ saved[<<"tap-snake", 10>>] = 1
  /\ Retained("tap-snake", 10) = 1

\* the value a read gives when there is nothing to read
EmptyValue(name) ==
  IF name = "getScores" THEN JsArray(<<>>)
  ELSE IF name = "getTopScores" THEN <<>>
  ELSE IF name = "getBestScore" THEN 0
  ELSE IF name = "getGameStats" THEN NoStats
  ELSE IF name = "getAllStats"
    THEN [totalGamesPlayed |-> 0, gamesStats |-> <<>>]
  ELSE [type |-> "object", obj |-> DefaultPreferences]

\* the item a read reads is absent, unparsable, or null or an object
Unusable(name) ==
  LET item == IF name = "getPreferences" THEN localStorage.prefs
              ELSE localStorage.scores
  IN  IF name = "getPreferences"
        THEN item.kind \in {"absent", "garbage", "null"}
        ELSE item.kind \in {"absent", "garbage", "null", "object"}

\* C20: when the item it reads is absent, unparsable or not of the expected
\* shape, every read of the cache returns the empty or default value and does
\* not throw.
C20_ReadsDegrade ==
  (result.op # "none" /\ Unusable(result.op))
  => (~result.threw /\ result.value = EmptyValue(result.op))

\* ------------------------------------------------- server properties, continued
\* the slugs of the games the seeded challenges are for, in stored order
SeededChallengeSlugs == <<"bottle-flip-2d", "color-trap", "traffic-tapper">>

\* the seeded challenge of the game with this slug that is active at now
SeededActive(slug, now) ==
  {i \in 1..Len(SeededChallengeSlugs) :
     /\ SeededChallengeSlugs[i] = slug
     /\ ActiveAt(challenges[i], now)}

\* C23 as stated: every seeded challenge stores the slug of a catalogue game
\* as its game identifier, and the active-challenge query made with the slug
\* of a seeded game returns its challenge that is active at the time.
C23_ChallengeJoinsBySlug ==
  /\ \A i \in 1..Len(SeededChallengeSlugs) :
       challenges[i].gameId = SeededChallengeSlugs[i]
  /\ Served("GET /api/challenges/:gameId")
     => \A i \in SeededActive(request.gameId, clock) :
          Returned(challenges[i])

\* C23, amended: every seeded challenge stores the id the store gave the
\* catalogue game of the intended slug; the active-challenge query made with
\* that id returns the first stored active challenge of the game, and the
\* query made with the slug returns none.
C23_ChallengeJoinsById ==
  /\ \A i \in 1..Len(SeededChallengeSlugs) :
       \E g \in Range(games) :
         /\ g.slug = SeededChallengeSlugs[i]
         /\ g.id = challenges[i].gameId
         /\ g.id # g.slug
  /\ Served("GET /api/challenges/:gameId")
     => /\ \A i \in 1..Len(SeededChallengeSlugs) :
             (/\ request.gameId = challenges[i].gameId
              /\ ActiveAt(challenges[i], clock)
              /\ \A j \in 1..Len(challenges) :
                   (challenges[j].gameId = request.gameId
                    /\ ActiveAt(challenges[j], clock)) => i <= j)
             => Returned(challenges[i])
        /\ request.gameId \in Range(SeededChallengeSlugs)
           => response.body = <<>>

\* On the first day the query made with the id of Bottle Flip returns its
\* seeded challenge.
C23_Witness ==
  /\ Served("GET /api/challenges/:gameId")
  /\ clock = 0
  /\ request.gameId = challenges[1].gameId
  /\ \E g \in Range(games) :
       g.slug = "bottle-flip-2d" /\ g.id = request.gameId
  /\ Returned(challenges[1])

\* the place of a stored score in the order of insertion
InsertedAt(sc) == CHOOSE k \in 1..Len(scores) : scores[k] = sc

\* C24: in the result of the ranking (the leaderboard route and GET
\* /api/scores alike), two records of equal score appear in the order in
\* which they were inserted.
C24_TiesKeepInsertionOrder ==
  (Served("GET /api/leaderboard/:gameId") \/ Served("GET /api/scores"))
  => \A i \in 1..Len(response.body), j \in 1..Len(response.body) :
       (i < j /\ response.body[i].score = response.body[j].score)
       => InsertedAt(response.body[i]) < InsertedAt(response.body[j])

\* The leaderboard of g1 shows two records of equal score, a higher score
\* inserted between them ranking first.
C24_Witness ==
  /\ Served("GET /api/leaderboard/:gameId")
  /\ request.gameId = "g1"
  /\ Len(response.body) = 3
  /\ response.body = <<scores[2], scores[1], scores[3]>>
  /\ scores[1].score = scores[3].score

\* ------------------------------------------------ engine properties, continued
\* C30: at most one frame callback is scheduled for the engine at any moment
\* (so update runs at most once per animation frame), also when start follows
\* a stop issued from inside update before the next frame fires.
C30_OneFrameScheduled == Len(scheduled) <= 1

\* the update calls of the operation that leads to the next state
UpdatesNext == {i \in 1..Len(calls') : calls'[i].fn = "update"}

\* what C25 and its amended form share: a deltaTime is never negative, is the
\* time since lastTime was set for a frame callback, and is 0 for the frame
\* start runs; a loop that goes from not playing to playing sets lastTime to
\* the present, so that no time spent stopped is delivered.
DeltaIsElapsed ==
  /\ \A i \in UpdatesNext :
       /\ calls'[i].arg >= 0
       /\ op' = "frame" => calls'[i].arg = Now - lastTime
       /\ op' \in {"start", "restart"} => calls'[i].arg = 0
  /\ (~state.isPlaying /\ state'.isPlaying) => lastTime' = Now

\* C25 as stated: deltaTime is the time elapsed since the preceding frame
\* callback, never negative, and holds no time that passed while the loop
\* was paused or stopped.
C25_DeltaExcludesPausedTime ==
  [][/\ DeltaIsElapsed
     /\ \A i \in UpdatesNext : op' = "frame" => pausedTime = 0]_vars

\* C25, amended: deltaTime is the time elapsed since the preceding frame
\* callback that found the loop playing (0 for the frame start runs), never
\* negative; time spent stopped is never delivered; time spent paused is
\* discarded by every frame callback that finds the loop paused, which sets
\* lastTime to the present without calling update, so that only the time the
\* loop spent paused after the last such callback is part of the next
\* deltaTime.
C25_DeltaSincePrecedingFrame ==
  [][/\ DeltaIsElapsed
     /\ \A i \in UpdatesNext : op' = "frame" => pausedTime <= calls'[i].arg
     /\ (op' = "frame" /\ state.isPlaying /\ state.isPaused)
        => (lastTime' = Now /\ pausedTime' = 0 /\ UpdatesNext = {})]_vars

\* The loop was resumed half a second after the last frame callback, a
\* callback that found it paused: the next update is owed that half second.
C25_Witness ==
  /\ op = "pause"
  /\ state.isPlaying /\ ~state.isPaused
  /\ pausedTime = TickMs
  /\ lastTime = Now - TickMs
  /\ scheduled # <<>>

\* C26: while Color Trap is playing, a click on any button of the target
\* colour is a correct click (correctClicks grows by one, the score becomes
\* ten times correctClicks) and does not end the game; only a click on a
\* button of another colour calls stop.
C26_TargetColourIsCorrect ==
  [][(op' = "click" /\ state.isPlaying)
     => /\ input' \in {"target", "sameColour"}
           => /\ correctClicks' = correctClicks + 1
              /\ state'.score = 10 * correctClicks'
              /\ state'.isPlaying
              /\ \A i \in 1..Len(calls') : calls'[i].fn # "stop"
        /\ (\E i \in 1..Len(calls') : calls'[i].fn = "stop")
           => input' = "other"]_vars

\* C21: after every game-over of Color Trap the best score the component
\* displays equals the highest score stored for the game, the score just
\* written included.
C21_BestScoreIsHighestStored ==
  (Mounted /\ GameOver)
    => bestScore = getBestScore(localStorage, "color-trap").value

\* A frame in which the flipping bottle lands, and whether it lands upright.
Landing ==
  op' = "frame" /\ gameEngine.bottle.isFlipping /\ ~gameEngine'.bottle.isFlipping

LandsUpright ==
  isUpright((gameEngine.bottle.rotation + gameEngine.bottle.angularVelocity)
              % (360 * Tenths))

\* C27: in Bottle Flip every landing that is not upright calls stop, whatever
\* consecutiveFlips is (zero included), and every upright landing increments
\* consecutiveFlips and sets the score to 100 times consecutiveFlips.
C27_MissStopsUprightScores ==
  [][Landing
     => IF LandsUpright
          THEN /\ gameEngine'.consecutiveFlips
                    = gameEngine.consecutiveFlips + 1
               /\ state'.score = 100 * gameEngine'.consecutiveFlips
          ELSE \E i \in 1..Len(calls') : calls'[i].fn = "stop"]_vars

\* C28: whenever Tap Snake is playing, the snake has 3 + foodEaten segments
\* and the score is ten times foodEaten.
C28_SnakeLengthAndScore ==
  state.isPlaying
    => /\ Len(gameEngine.snake) = 3 + gameEngine.foodEaten
       /\ state.score = 10 * gameEngine.foodEaten

\* the light consulted for the vehicles of a direction is green
GreenFor(direction) == lightFor([game |-> gameEngine], direction)[1].isGreen

\* C29: in Traffic Tapper a click on either traffic light toggles both
\* lights, and after any clicks, frames and restarts the light consulted for
\* horizontal vehicles and the one consulted for vertical vehicles are never
\* both green and never both red.
C29_LightsOpposite ==
  /\ [](GreenFor("horizontal") # GreenFor("vertical"))
  /\ [][(op' = "click" /\ state.isPlaying
           /\ input' \in {"horizontal", "vertical"})
        => /\ GreenFor("horizontal")' = ~GreenFor("horizontal")
           /\ GreenFor("vertical")' = ~GreenFor("vertical")]_vars

C29_Witness ==
  /\ op = "click" /\ input = "vertical"
  /\ Len(gameEngine.trafficLights) > 2
  /\ ~GreenFor("horizontal") /\ GreenFor("vertical")
  /\ gameEngine.vehicles # <<>>

\* C22: the score of the game state is a non-negative integer in every
\* reachable state of every game engine, under any sequence of frames,
\* inputs, start, pause, stop and restart.
C22_ScoreNonNegative == state.score \in Nat

\* C31: whenever the loop goes from not playing to playing, by the Start
\* button or by restart, the score is 0 and Color Trap's fields are those
\* reset leaves, also after a session that ended in game over.
C31_SessionBeginsFresh ==
  [][(~state.isPlaying /\ state'.isPlaying)
       => /\ state'.score = 0
          /\ correctClicks' = 0
          /\ timeLeft' = InitialTimeLeft
          /\ lastTimeUpdate' = 0]_vars

\* C32: the component saves a score exactly once per session that was started
\* and then ended: a step adds one record to the cache when it ends a session
\* (stop runs while the loop is playing) and none otherwise.
C32_SavesOncePerSession ==
  [][Len(LocalStorage_getScores(localStorage', "color-trap").items)
       = Len(SavedScores)
           + (IF state.isPlaying /\ \E i \in 1..Len(calls') :
                                      calls'[i].fn = "stop"
                THEN 1 ELSE 0)]_vars

\* C33: while the loop is paused (isPlaying and isPaused both true) a click
\* on the canvas changes neither score nor gameOver nor Color Trap's fields.
C33_PausedIgnoresInput ==
  [][(state.isPlaying /\ state.isPaused /\ op' = "click")
       => /\ state' = state
          /\ score' = score
          /\ correctClicks' = correctClicks
          /\ timeLeft' = timeLeft
          /\ lastTimeUpdate' = lastTimeUpdate]_vars

\* C34: a frame in which update calls stop still calls render, once and after
\* the stop, and ends with isPlaying false and gameOver true; and no operation
\* on a loop that is not playing calls update or render, except start and
\* restart.
C34_GameOverFrameDrawn ==
  [][/\ (op' = "frame" /\ \E i \in 1..Len(calls') : calls'[i].fn = "stop") =>
          /\ Cardinality({j \in 1..Len(calls') : calls'[j].fn = "render"}) = 1
          /\ calls'[Len(calls')].fn = "render"
          /\ ~state'.isPlaying /\ state'.gameOver
     /\ (~state.isPlaying /\ op' \notin {"start", "restart"}) =>
          \A i \in 1..Len(calls') : calls'[i].fn \notin {"update", "render"}]_vars

\* the frame callback left scheduled by the game-over frame has run: the time
\* is up, the loop is over and the callback called nothing
C34_Witness ==
  /\ op = "frame" /\ calls = <<>>
  /\ GameOver /\ timeLeft <= 0

\* C35: in Paper Plane a frame of a session that keeps playing creates a new
\* pair of obstacles whenever the newest pair has scrolled obstacleSpacing
\* (300 px) from the right edge, where it was created.
C35_ObstaclesKeepComing ==
  [][(/\ op' = "frame"
      /\ state.isPlaying /\ ~state.isPaused
      /\ gameEngine.obstacles # <<>>
      /\ PaperPlane_width * Thousandths
           - gameEngine.obstacles[Len(gameEngine.obstacles)].x
           >= obstacleSpacing * Thousandths)
       => \E i \in 1..Len(calls') : calls'[i].fn = "generateObstacle"]_vars

\* C36: in Doodle Stack, whenever the loop is playing and no block waits to
\* be dropped, a new block is eventually spawned, unless the loop stops
\* playing first and is not started again.
C36_BlockEventuallySpawned ==
  (state.isPlaying /\ gameEngine.currentBlock = <<>>)
    ~> (gameEngine.currentBlock # <<>> \/ ~state.isPlaying)

\* C37: in Traffic Tapper, after every restart there are exactly two traffic
\* lights, the horizontal one green and the vertical one red, and every light
\* that is drawn is the light consulted for the vehicles of its direction.
C37_RestartResetsLights ==
  [][op' = "restart" =>
       LET lights == gameEngine'.trafficLights
       IN  /\ Len(lights) = 2
           /\ GreenFor("horizontal")' /\ ~GreenFor("vertical")'
           /\ \A i \in 1..Len(lights) :
                <<lights[i]>> = lightFor([game |-> gameEngine'],
                                         lights[i].direction)]_vars

====
